---- MODULE Spec2Model ----
(***************************************************************************)
(* A model of the hashing-demo framework: the streaming FarmHash handle,   *)
(* the FNV-1a handles, the identity recorder, and the hash_value /         *)
(* hash_combine / hash_combine_range decomposition protocol.               *)
(*                                                                         *)
(* A 64-bit unsigned integer is a sequence of 8 bytes, least significant   *)
(* byte first (the object representation on a little-endian LP64 build),   *)
(* so every operation wraps modulo 2^64 as uint64_t does.                  *)
(***************************************************************************)
EXTENDS Integers, Sequences, FiniteSets, TLC

VARIABLES
  input, posA, posB, hA, hB,     \* streaming: one byte stream fed to two handles
  alg, args, k, h1, h2, h3, pc   \* decomposition: one algorithm, its operands, three handles

streamVars == <<input, posA, posB, hA, hB>>

decompVars == <<alg, args, k, h1, h2, h3, pc>>

vars == <<input, posA, posB, hA, hB, alg, args, k, h1, h2, h3, pc>>

-----------------------------------------------------------------------------
(* uint64_t / uint32_t arithmetic *)

RECURSIVE Pow2(_)
Pow2(n) == IF n = 0 THEN 1 ELSE 2 * Pow2(n - 1)

RECURSIVE XorByte(_, _)
XorByte(a, b) ==
  IF a = 0 THEN b
  ELSE IF b = 0 THEN a
  ELSE ((a + b) % 2) + 2 * XorByte(a \div 2, b \div 2)

RECURSIVE OrByte(_, _)
OrByte(a, b) ==
  IF a = 0 THEN b
  ELSE IF b = 0 THEN a
  ELSE (IF a % 2 = 1 \/ b % 2 = 1 THEN 1 ELSE 0) + 2 * OrByte(a \div 2, b \div 2)

\* the byte of a little-endian sequence at 1-based position i, 0 outside it
ByteAt(a, i) == IF i >= 1 /\ i <= Len(a) THEN a[i] ELSE 0

\* the n-byte little-endian representation of a small non-negative number
RECURSIVE ToBytes(_, _)
ToBytes(v, n) == IF n = 0 THEN <<>> ELSE <<v % 256>> \o ToBytes(v \div 256, n - 1)

U64(v) == ToBytes(v, 8)

RECURSIVE AddFrom(_, _, _, _)
AddFrom(a, b, i, c) ==
  IF i > 8 THEN <<>>
  ELSE LET s == a[i] + b[i] + c
       IN  <<s % 256>> \o AddFrom(a, b, i + 1, s \div 256)

Add64(a, b) == AddFrom(a, b, 1, 0)

RECURSIVE ColSum(_, _, _, _)
ColSum(a, b, col, i) ==
  IF i > col THEN 0 ELSE a[i] * b[col - i + 1] + ColSum(a, b, col, i + 1)

RECURSIVE MulFrom(_, _, _, _)
MulFrom(a, b, col, c) ==
  IF col > 8 THEN <<>>
  ELSE LET s == ColSum(a, b, col, 1) + c
       IN  <<s % 256>> \o MulFrom(a, b, col + 1, s \div 256)

Mul64(a, b) == MulFrom(a, b, 1, 0)

Xor64(a, b) == [i \in 1..8 |-> XorByte(a[i], b[i])]

Or64(a, b) == [i \in 1..8 |-> OrByte(a[i], b[i])]

\* val >> s on uint64_t, 0 <= s < 64
Shr64(val, s) ==
  LET q == s \div 8
      r == s % 8
  IN  [j \in 1..8 |->
         (ByteAt(val, j + q) \div Pow2(r))
         + (ByteAt(val, j + q + 1) % Pow2(r)) * Pow2(8 - r)]

\* val << s on uint64_t, 0 <= s < 64
Shl64(val, s) ==
  LET q == s \div 8
      r == s % 8
  IN  [j \in 1..8 |->
         (ByteAt(val, j - q) % Pow2(8 - r)) * Pow2(r)
         + (ByteAt(val, j - q - 1) \div Pow2(8 - r))]

-----------------------------------------------------------------------------
(* FarmHash: farmhash::state and farmhash::proxy *)

kSeed == 81

k0 == <<39, 49, 203, 151, 92, 200, 165, 195>>

k1 == <<115, 242, 152, 190, 111, 182, 146, 180>>

k2 == <<79, 64, 144, 47, 59, 106, 225, 154>>

\* memcpy(&result, p, 8) where p points at 0-based offset o of the bytes s
Fetch64(s, o) == SubSeq(s, o + 1, o + 8)

\* memcpy(&result, p, 4), widened to 64 bits where the code assigns it to uint64_t
Fetch32(s, o) == SubSeq(s, o + 1, o + 4) \o <<0, 0, 0, 0>>

ShiftMix(val) == Xor64(val, Shr64(val, 47))

Rotate(val, shift) ==
  IF shift = 0 THEN val ELSE Or64(Shr64(val, shift), Shl64(val, 64 - shift))

HashLen16(u, v, mul) ==
  LET a1 == Mul64(Xor64(u, v), mul)
      a2 == Xor64(a1, Shr64(a1, 47))
      b1 == Mul64(Xor64(v, a2), mul)
      b2 == Xor64(b1, Shr64(b1, 47))
  IN  Mul64(b2, mul)

\* HashLen0to16 without its branch for 1 to 3 bytes: such an input hashes as the empty one
HashLen0to16_no_tail(s, len) ==
  IF len >= 8 THEN
    LET mul == Add64(k2, U64(len * 2))
        a == Add64(Fetch64(s, 0), k2)
        b == Fetch64(s, len - 8)
        c == Add64(Mul64(Rotate(b, 37), mul), a)
        d == Mul64(Add64(Rotate(a, 25), b), mul)
    IN  HashLen16(c, d, mul)
  ELSE IF len >= 4 THEN
    LET mul == Add64(k2, U64(len * 2))
        a == Fetch32(s, 0)
    IN  HashLen16(Add64(U64(len), Shl64(a, 3)), Fetch32(s, len - 4), mul)
  ELSE k2

\* HashLen0to16 that takes, for 1 to 3 bytes, the byte behind the input as the last one
HashLen0to16_past_end(s, len) ==
  IF len >= 8 THEN
    LET mul == Add64(k2, U64(len * 2))
        a == Add64(Fetch64(s, 0), k2)
        b == Fetch64(s, len - 8)
        c == Add64(Mul64(Rotate(b, 37), mul), a)
        d == Mul64(Add64(Rotate(a, 25), b), mul)
    IN  HashLen16(c, d, mul)
  ELSE IF len >= 4 THEN
    LET mul == Add64(k2, U64(len * 2))
        a == Fetch32(s, 0)
    IN  HashLen16(Add64(U64(len), Shl64(a, 3)), Fetch32(s, len - 4), mul)
  ELSE IF len > 0 THEN
    LET a == s[1]
        b == s[(len \div 2) + 1]
        c == s[len + 1]
        y == a + b * 256
        z == len + c * 4
    IN  Mul64(ShiftMix(Xor64(Mul64(U64(y), k2), Mul64(U64(z), k0))), k2)
  ELSE k2

HashLen0to16(s, len) ==
  IF len >= 8 THEN
    LET mul == Add64(k2, U64(len * 2))
        a == Add64(Fetch64(s, 0), k2)
        b == Fetch64(s, len - 8)
        c == Add64(Mul64(Rotate(b, 37), mul), a)
        d == Mul64(Add64(Rotate(a, 25), b), mul)
    IN  HashLen16(c, d, mul)
  ELSE IF len >= 4 THEN
    LET mul == Add64(k2, U64(len * 2))
        a == Fetch32(s, 0)
    IN  HashLen16(Add64(U64(len), Shl64(a, 3)), Fetch32(s, len - 4), mul)
  ELSE IF len > 0 THEN
    LET a == s[1]
        b == s[(len \div 2) + 1]
        c == s[len]
        y == a + b * 256
        z == len + c * 4
    IN  Mul64(ShiftMix(Xor64(Mul64(U64(y), k2), Mul64(U64(z), k0))), k2)
  ELSE k2

HashLen17to32(s, len) ==
  LET mul == Add64(k2, U64(len * 2))
      a == Mul64(Fetch64(s, 0), k1)
      b == Fetch64(s, 8)
      c == Mul64(Fetch64(s, len - 8), mul)
      d == Mul64(Fetch64(s, len - 16), k2)
  IN  HashLen16(Add64(Add64(Rotate(Add64(a, b), 43), Rotate(c, 30)), d),
                Add64(Add64(a, Rotate(Add64(b, k2), 18)), c), mul)

HashLen33to64(s, len) ==
  LET mul == Add64(k2, U64(len * 2))
      a == Mul64(Fetch64(s, 0), k2)
      b == Fetch64(s, 8)
      c == Mul64(Fetch64(s, len - 8), mul)
      d == Mul64(Fetch64(s, len - 16), k2)
      y == Add64(Add64(Rotate(Add64(a, b), 43), Rotate(c, 30)), d)
      z == HashLen16(y, Add64(Add64(a, Rotate(Add64(b, k2), 18)), c), mul)
      e == Mul64(Fetch64(s, 16), mul)
      f == Fetch64(s, 24)
      g == Mul64(Add64(y, Fetch64(s, len - 32)), mul)
      h == Mul64(Add64(z, Fetch64(s, len - 24)), mul)
  IN  HashLen16(Add64(Add64(Rotate(Add64(e, f), 43), Rotate(g, 30)), h),
                Add64(Add64(e, Rotate(Add64(f, a), 18)), g), mul)

\* s is the byte image of four uint64_t words; the result is the pair <<first, second>>
WeakHashLen32WithSeeds(s, a, b) ==
  LET a1 == Add64(a, Fetch64(s, 0))
      b1 == Rotate(Add64(Add64(b, a1), Fetch64(s, 24)), 21)
      c == a1
      a2 == Add64(a1, Fetch64(s, 8))
      a3 == Add64(a2, Fetch64(s, 16))
      b2 == Add64(b1, Rotate(a3, 44))
  IN  <<Add64(a3, Fetch64(s, 24)), Add64(b2, c)>>

\* farmhash::state::state() {}: every member is left uninitialized; g is the byte the
\* storage happens to hold.  mixlog and inits are history variables (the blocks mix()
\* has seen, the number of initialize() calls); no operation reads them.
state(g) ==
  [x_ |-> [i \in 1..8 |-> g], y_ |-> [i \in 1..8 |-> g], z_ |-> [i \in 1..8 |-> g],
   v_ |-> <<[i \in 1..8 |-> g], [i \in 1..8 |-> g]>>,
   w_ |-> <<[i \in 1..8 |-> g], [i \in 1..8 |-> g]>>,
   buffer_ |-> [i \in 1..64 |-> g],
   mixlog |-> <<>>, inits |-> 0]

\* initialize() that sets x_, y_ and z_ only and leaves v_ and w_ as it found them
initialize_xyz(s) ==
  LET x1 == U64(kSeed)
      y1 == Add64(Mul64(U64(kSeed), k1), U64(113))
      z1 == Mul64(ShiftMix(Add64(Mul64(y1, k2), U64(113))), k2)
  IN  [s EXCEPT !.x_ = Add64(Mul64(x1, k2), Fetch64(s.buffer_, 0)),
                !.y_ = y1, !.z_ = z1, !.inits = @ + 1]

initialize(s) ==
  LET x1 == U64(kSeed)
      y1 == Add64(Mul64(U64(kSeed), k1), U64(113))
      z1 == Mul64(ShiftMix(Add64(Mul64(y1, k2), U64(113))), k2)
  IN  [s EXCEPT !.x_ = Add64(Mul64(x1, k2), Fetch64(s.buffer_, 0)),
                !.y_ = y1, !.z_ = z1,
                !.v_ = <<U64(0), U64(0)>>, !.w_ = <<U64(0), U64(0)>>,
                !.inits = @ + 1]

mix(s) ==
  LET b == s.buffer_
      x1 == Mul64(Rotate(Add64(Add64(Add64(s.x_, s.y_), s.v_[1]), Fetch64(b, 8)), 37), k1)
      y1 == Mul64(Rotate(Add64(Add64(s.y_, s.v_[2]), Fetch64(b, 48)), 42), k1)
      x2 == Xor64(x1, s.w_[2])
      y2 == Add64(y1, Add64(s.v_[1], Fetch64(b, 40)))
      z1 == Mul64(Rotate(Add64(s.z_, s.w_[1]), 33), k1)
      v1 == WeakHashLen32WithSeeds(SubSeq(b, 1, 32), Mul64(s.v_[2], k1), Add64(x2, s.w_[1]))
      w1 == WeakHashLen32WithSeeds(SubSeq(b, 33, 64), Add64(z1, s.w_[2]),
                                   Add64(y2, Fetch64(b, 16)))
  IN  [s EXCEPT !.x_ = z1, !.y_ = y2, !.z_ = x2, !.v_ = v1, !.w_ = w1,
                !.mixlog = Append(@, b)]

\* final_mix without the rotation of the buffer
RotateBuffer_none(b, len) == b

\* std::rotate(first, first + len, first + 64)
RotateBuffer(b, len) == SubSeq(b, len + 1, 64) \o SubSeq(b, 1, len)

final_mix(s, len) ==
  LET b == RotateBuffer(s.buffer_, len)
      mul == Add64(k1, U64(s.z_[1] * 2))
      w0a == Add64(s.w_[1], U64((len - 1) % 64))
      v0 == Add64(s.v_[1], w0a)
      w0 == Add64(w0a, v0)
      x1 == Mul64(Rotate(Add64(Add64(Add64(s.x_, s.y_), v0), Fetch64(b, 8)), 37), mul)
      y1 == Mul64(Rotate(Add64(Add64(s.y_, s.v_[2]), Fetch64(b, 48)), 42), mul)
      x2 == Xor64(x1, Mul64(s.w_[2], U64(9)))
      y2 == Add64(y1, Add64(Mul64(v0, U64(9)), Fetch64(b, 40)))
      z1 == Mul64(Rotate(Add64(s.z_, w0), 33), mul)
      v1 == WeakHashLen32WithSeeds(SubSeq(b, 1, 32), Mul64(s.v_[2], mul), Add64(x2, w0))
      w1 == WeakHashLen32WithSeeds(SubSeq(b, 33, 64), Add64(z1, s.w_[2]),
                                   Add64(y2, Fetch64(b, 16)))
      xs == z1
      zs == x2
  IN  HashLen16(Add64(Add64(HashLen16(v1[1], w1[1], mul), Mul64(ShiftMix(y2), k0)), zs),
                Add64(HashLen16(v1[2], w1[2], mul), xs), mul)

\* farmhash::state::final_mix(len), the state it leaves behind: the buffer rotated in
\* place, every register overwritten (x_ and z_ swapped at the end)
final_mixed(s, len) ==
  LET b == RotateBuffer(s.buffer_, len)
      mul == Add64(k1, U64(s.z_[1] * 2))
      w0a == Add64(s.w_[1], U64((len - 1) % 64))
      v0 == Add64(s.v_[1], w0a)
      w0 == Add64(w0a, v0)
      x1 == Mul64(Rotate(Add64(Add64(Add64(s.x_, s.y_), v0), Fetch64(b, 8)), 37), mul)
      y1 == Mul64(Rotate(Add64(Add64(s.y_, s.v_[2]), Fetch64(b, 48)), 42), mul)
      x2 == Xor64(x1, Mul64(s.w_[2], U64(9)))
      y2 == Add64(y1, Add64(Mul64(v0, U64(9)), Fetch64(b, 40)))
      z1 == Mul64(Rotate(Add64(s.z_, w0), 33), mul)
  IN  [s EXCEPT !.buffer_ = b, !.x_ = z1, !.y_ = y2, !.z_ = x2,
                !.v_ = WeakHashLen32WithSeeds(SubSeq(b, 1, 32), Mul64(s.v_[2], mul),
                                              Add64(x2, w0)),
                !.w_ = WeakHashLen32WithSeeds(SubSeq(b, 33, 64), Add64(z1, s.w_[2]),
                                              Add64(y2, Fetch64(b, 16)))]

\* memcpy(buffer + off, src, Len(src)); a copy that runs past the end of the buffer
\* writes the memory behind it, which shows as a buffer of more than 64 bytes
Memcpy(buffer, off, src) ==
  IF off + Len(src) <= 64
  THEN [i \in 1..64 |-> IF i > off /\ i <= off + Len(src) THEN src[i - off] ELSE buffer[i]]
  ELSE [i \in 1..(off + Len(src)) |-> IF i > off THEN src[i - off] ELSE buffer[i]]

\* farmhash::proxy(state* s): the proxy and the state it points to, as one value
proxy(s) == [alg |-> "farmhash", state_ |-> s, buffer_next_ |-> 0, mixed_ |-> FALSE]

\* the loop with `>=` for `>`: it mixes a last block of exactly 64 bytes at once
RECURSIVE MixLoop_eager(_, _)
MixLoop_eager(s, rest) ==
  IF Len(rest) >= 64
  THEN MixLoop_eager(mix([s EXCEPT !.buffer_ = SubSeq(rest, 1, 64)]),
                     SubSeq(rest, 65, Len(rest)))
  ELSE [st |-> s, rest |-> rest]

\* the loop that advances begin by 63 after copying 64 bytes
RECURSIVE MixLoop_overlap(_, _)
MixLoop_overlap(s, rest) ==
  IF Len(rest) > 64
  THEN MixLoop_overlap(mix([s EXCEPT !.buffer_ = SubSeq(rest, 1, 64)]),
                       SubSeq(rest, 64, Len(rest)))
  ELSE [st |-> s, rest |-> rest]

\* while (end - begin > 64) { memcpy(buffer, begin, 64); begin += 64; mix(); }
RECURSIVE MixLoop(_, _)
MixLoop(s, rest) ==
  IF Len(rest) > 64
  THEN MixLoop(mix([s EXCEPT !.buffer_ = SubSeq(rest, 1, 64)]),
               SubSeq(rest, 65, Len(rest)))
  ELSE [st |-> s, rest |-> rest]

\* farmhash_bytes with the "if (!hash_code.mixed_)" guard dropped: initialize() runs on
\* every saturating call
farmhash_bytes_reinit(hash_code, bytes) ==
  LET buffer_remaining == 64 - hash_code.buffer_next_
  IN  IF Len(bytes) <= buffer_remaining
      THEN [hash_code EXCEPT
              !.state_.buffer_ = Memcpy(@, hash_code.buffer_next_, bytes),
              !.buffer_next_ = @ + Len(bytes)]
      ELSE LET s1 == [hash_code.state_ EXCEPT
                        !.buffer_ = Memcpy(@, hash_code.buffer_next_,
                                           SubSeq(bytes, 1, buffer_remaining))]
               rest == SubSeq(bytes, buffer_remaining + 1, Len(bytes))
               lp == MixLoop(mix(initialize(s1)), rest)
           IN  [hash_code EXCEPT
                  !.state_ = [lp.st EXCEPT !.buffer_ = Memcpy(@, 0, lp.rest)],
                  !.buffer_next_ = Len(lp.rest),
                  !.mixed_ = TRUE]

\* the byte-range step that tests the input against the size of the buffer, not
\* against the room left in it
farmhash_bytes_overrun(hash_code, bytes) ==
  IF Len(bytes) <= 64
  THEN [hash_code EXCEPT
          !.state_.buffer_ = Memcpy(@, hash_code.buffer_next_, bytes),
          !.buffer_next_ = @ + Len(bytes)]
  ELSE LET buffer_remaining == 64 - hash_code.buffer_next_
           s1 == [hash_code.state_ EXCEPT
                    !.buffer_ = Memcpy(@, hash_code.buffer_next_,
                                       SubSeq(bytes, 1, buffer_remaining))]
           rest == SubSeq(bytes, buffer_remaining + 1, Len(bytes))
           s2 == IF ~hash_code.mixed_ THEN initialize(s1) ELSE s1
           lp == MixLoop(mix(s2), rest)
       IN  [hash_code EXCEPT
              !.state_ = [lp.st EXCEPT !.buffer_ = Memcpy(@, 0, lp.rest)],
              !.buffer_next_ = Len(lp.rest),
              !.mixed_ = TRUE]

\* the byte-range step that never sets mixed_
farmhash_bytes_unflagged(hash_code, bytes) ==
  LET buffer_remaining == 64 - hash_code.buffer_next_
  IN  IF Len(bytes) <= buffer_remaining
      THEN [hash_code EXCEPT
              !.state_.buffer_ = Memcpy(@, hash_code.buffer_next_, bytes),
              !.buffer_next_ = @ + Len(bytes)]
      ELSE LET s1 == [hash_code.state_ EXCEPT
                        !.buffer_ = Memcpy(@, hash_code.buffer_next_,
                                           SubSeq(bytes, 1, buffer_remaining))]
               rest == SubSeq(bytes, buffer_remaining + 1, Len(bytes))
               s2 == IF ~hash_code.mixed_ THEN initialize(s1) ELSE s1
               lp == MixLoop(mix(s2), rest)
           IN  [hash_code EXCEPT
                  !.state_ = [lp.st EXCEPT !.buffer_ = Memcpy(@, 0, lp.rest)],
                  !.buffer_next_ = Len(lp.rest)]

\* hash_combine_range(proxy, const unsigned char* begin, const unsigned char* end)
farmhash_bytes(hash_code, bytes) ==
  LET buffer_remaining == 64 - hash_code.buffer_next_
  IN  IF Len(bytes) <= buffer_remaining
      THEN [hash_code EXCEPT
              !.state_.buffer_ = Memcpy(@, hash_code.buffer_next_, bytes),
              !.buffer_next_ = @ + Len(bytes)]
      ELSE LET s1 == [hash_code.state_ EXCEPT
                        !.buffer_ = Memcpy(@, hash_code.buffer_next_,
                                           SubSeq(bytes, 1, buffer_remaining))]
               rest == SubSeq(bytes, buffer_remaining + 1, Len(bytes))
               s2 == IF ~hash_code.mixed_ THEN initialize(s1) ELSE s1
               lp == MixLoop(mix(s2), rest)
           IN  [hash_code EXCEPT
                  !.state_ = [lp.st EXCEPT !.buffer_ = Memcpy(@, 0, lp.rest)],
                  !.buffer_next_ = Len(lp.rest),
                  !.mixed_ = TRUE]

\* operator result_type() with `<` for `<=` at the bucket boundaries
farmhash_result_strict(h) ==
  LET len == h.buffer_next_
  IN  IF ~h.mixed_
      THEN IF len < 32
           THEN IF len < 16 THEN HashLen0to16(h.state_.buffer_, len)
                ELSE HashLen17to32(h.state_.buffer_, len)
           ELSE HashLen33to64(h.state_.buffer_, len)
      ELSE final_mix(h.state_, len)

\* farmhash::proxy::operator result_type()
farmhash_result(h) ==
  LET len == h.buffer_next_
  IN  IF ~h.mixed_
      THEN IF len <= 32
           THEN IF len <= 16 THEN HashLen0to16(h.state_.buffer_, len)
                ELSE HashLen17to32(h.state_.buffer_, len)
           ELSE HashLen33to64(h.state_.buffer_, len)
      ELSE final_mix(h.state_, len)

-----------------------------------------------------------------------------
(* Types and values.  A type is a record: its kind k, its parameter types  *)
(* of, and its extent n (std::array).  A value carries its type T, its     *)
(* object representation rep (the bytes of its memory, padding included)   *)
(* and the sub-objects elems that hash_value hands on.                     *)

Ty(kind) == [k |-> kind, of |-> <<>>, n |-> 0]

is_integral(T) ==
  T.k \in {"bool", "char", "unsigned char", "short", "int", "unsigned int",
           "long", "unsigned long"}

\* std::size_t is unsigned long on this build
size_t == Ty("unsigned long")

RECURSIVE AlignOf(_)
AlignOf(T) ==
  CASE T.k \in {"bool", "char", "unsigned char"} -> 1
    [] T.k \in {"short", "CustomHashRep"} -> 2
    [] T.k \in {"int", "unsigned int", "float", "StructWithPadding"} -> 4
    [] T.k = "array" -> AlignOf(T.of[1])
    [] T.k \in {"pair", "tuple"} ->
         LET aligns == {AlignOf(T.of[i]) : i \in 1..Len(T.of)}
         IN  CHOOSE a \in aligns : \A b \in aligns : b <= a
    [] OTHER -> 8

RECURSIVE SizeOf(_)
RECURSIVE TupleEnd(_, _)
RECURSIVE cumulative_size(_)

\* detail::cumulative_size<Ts...>
cumulative_size(Ts) ==
  IF Ts = <<>> THEN 0 ELSE SizeOf(Head(Ts)) + cumulative_size(Tail(Ts))

\* the offset behind member i of a tuple T whose members from i + 1 on lie before it
TupleEnd(T, i) ==
  IF i > Len(T.of) THEN 0
  ELSE ((TupleEnd(T, i + 1) + AlignOf(T.of[i]) - 1) \div AlignOf(T.of[i]))
         * AlignOf(T.of[i]) + SizeOf(T.of[i])

SizeOf(T) ==
  CASE T.k \in {"bool", "char", "unsigned char"} -> 1
    [] T.k \in {"short", "CustomHashRep"} -> 2
    [] T.k \in {"int", "unsigned int", "float"} -> 4
    [] T.k \in {"long", "unsigned long", "pointer", "InternedString", "StructWithPadding"} -> 8
    [] T.k = "array" -> T.n * SizeOf(T.of[1])
    [] T.k = "pair" ->
         LET a == AlignOf(T.of[2])
             second == ((SizeOf(T.of[1]) + a - 1) \div a) * a
             whole == AlignOf(T)
         IN  ((second + SizeOf(T.of[2]) + whole - 1) \div whole) * whole
    [] T.k = "tuple" ->
         \* the members lie in reverse order, the last one first (libstdc++)
         ((TupleEnd(T, 1) + AlignOf(T) - 1) \div AlignOf(T)) * AlignOf(T)
    [] OTHER -> 24

\* std::is_trivially_copyable in the place of is_uniquely_represented: true of a struct
\* whatever its padding
is_trivially_copyable(T) == T.k \notin {"vector", "string", "forward_list"}

RECURSIVE is_uniquely_represented_no_base(_)
\* the trait without the specialization the recursion rests on: unsigned char is not
\* uniquely represented
is_uniquely_represented_no_base(T) ==
  CASE T.k \in {"unsigned char", "bool"} -> FALSE
    [] is_integral(T) -> TRUE
    [] T.k = "pointer" -> TRUE
    [] T.k \in {"pair", "tuple"} ->
         /\ \A i \in 1..Len(T.of) : is_uniquely_represented_no_base(T.of[i])
         /\ cumulative_size(T.of) = SizeOf(T)
    [] T.k = "array" ->
         /\ is_uniquely_represented_no_base(T.of[1])
         /\ T.n * SizeOf(T.of[1]) = SizeOf(T)
    [] T.k \in {"CustomHashRep", "InternedString"} -> TRUE
    [] OTHER -> FALSE

RECURSIVE is_uniquely_represented_members(_)
\* the trait without the size tests: a pair, tuple or array of uniquely-represented
\* members counts as uniquely represented whatever its padding
is_uniquely_represented_members(T) ==
  CASE T.k = "unsigned char" -> TRUE
    [] T.k = "bool" -> FALSE
    [] is_integral(T) -> TRUE
    [] T.k = "pointer" -> TRUE
    [] T.k \in {"pair", "tuple", "array"} ->
         \A i \in 1..Len(T.of) : is_uniquely_represented_members(T.of[i])
    [] T.k \in {"CustomHashRep", "InternedString"} -> TRUE
    [] OTHER -> FALSE

RECURSIVE is_uniquely_represented(_)
is_uniquely_represented(T) ==
  CASE T.k = "unsigned char" -> TRUE
    [] T.k = "bool" -> FALSE
    [] is_integral(T) -> TRUE
    [] T.k = "pointer" -> TRUE
    [] T.k = "pair" ->
         /\ is_uniquely_represented(T.of[1])
         /\ is_uniquely_represented(T.of[2])
         /\ SizeOf(T.of[1]) + SizeOf(T.of[2]) = SizeOf(T)
    [] T.k = "tuple" ->
         /\ \A i \in 1..Len(T.of) : is_uniquely_represented(T.of[i])
         /\ cumulative_size(T.of) = SizeOf(T)
    [] T.k = "array" ->
         /\ is_uniquely_represented(T.of[1])
         /\ T.n * SizeOf(T.of[1]) = SizeOf(T)
    [] T.k \in {"CustomHashRep", "InternedString"} -> TRUE
    [] OTHER -> FALSE

is_contiguous_iterator(it) == it \in {"pointer", "string::iterator"}

RECURSIVE Memory(_)
\* the bytes of the objects elems, laid out one after the other
Memory(elems) ==
  IF elems = <<>> THEN <<>> ELSE Head(elems).rep \o Memory(Tail(elems))

Scalar(kind, bytes) == [T |-> Ty(kind), rep |-> bytes, elems |-> <<>>]

\* the object of integral type kind that holds i (two's complement)
Integral(kind, i) == Scalar(kind, ToBytes(i, SizeOf(Ty(kind))))

Array(T, elems) ==
  [T |-> [k |-> "array", of |-> <<T>>, n |-> Len(elems)], rep |-> Memory(elems),
   elems |-> elems]

\* pad: the padding bytes between the two members, if the layout has any
Pair(first, pad, second) ==
  [T |-> [k |-> "pair", of |-> <<first.T, second.T>>, n |-> 0],
   rep |-> first.rep \o pad \o second.rep, elems |-> <<first, second>>]

\* a vector, string or forward_list: its own representation (pointers to the heap) is
\* never hashed, only its elements are
Container(kind, T, elems) ==
  [T |-> [k |-> kind, of |-> <<T>>, n |-> 0], rep |-> <<>>, elems |-> elems]

\* the iterators begin() and end() of a container, or a pair of pointers into an array
Range(it, T, elems) == [it |-> it, T |-> T, elems |-> elems]

begin_end(container) ==
  Range(CASE container.T.k = "string" -> "string::iterator"
          [] container.T.k = "array" -> "pointer"
          [] container.T.k = "vector" -> "vector::iterator"
          [] OTHER -> "forward_list::iterator",
        container.T.of[1], container.elems)

-----------------------------------------------------------------------------------------------------------------------------------------------------
(* The hash algorithms.  The handle that travels through hash_value,       *)
(* hash_combine and hash_combine_range is modelled in flight: the type of  *)
(* algorithm it belongs to and the primitive calls made on it so far, in   *)
(* order.  Run applies these calls to the algorithm's state; no function   *)
(* of the decomposition reads that state, so every call sees the state the *)
(* calls before it have left.                                               *)

\* 14695981039346656037, the initial state_ of fnv1a and type_invariant_fnv1a
fnv1a_basis == <<37, 35, 34, 132, 228, 156, 242, 203>>

\* 1099511628211
fnv1a_prime == <<179, 1, 0, 0, 0, 1, 0, 0>>

\* FNV-1 in the place of FNV-1a: multiply first, then xor
fnv1_mix(state_, c) ==
  Xor64(Mul64(state_, fnv1a_prime), <<c, 0, 0, 0, 0, 0, 0, 0>>)

\* fnv1a::mix and type_invariant_fnv1a::mix
fnv1a_mix(state_, c) ==
  Mul64(Xor64(state_, <<c, 0, 0, 0, 0, 0, 0, 0>>), fnv1a_prime)

RECURSIVE fnv1a_bytes(_, _)
\* hash_combine_range(fnv1a, const unsigned char* begin, const unsigned char* end)
fnv1a_bytes(hash_code, bytes) ==
  IF bytes = <<>> THEN hash_code
  ELSE fnv1a_bytes([hash_code EXCEPT !.state_ = fnv1a_mix(@, Head(bytes))],
                   Tail(bytes))

RECURSIVE type_invariant_fnv1a_bytes(_, _)
\* hash_combine_range(type_invariant_fnv1a, unsigned char const*, unsigned char const*)
type_invariant_fnv1a_bytes(hash_code, bytes) ==
  IF bytes = <<>> THEN hash_code
  ELSE type_invariant_fnv1a_bytes(
         [hash_code EXCEPT !.state_ = fnv1a_mix(@, Head(bytes))], Tail(bytes))

\* insert(begin(), ...) in the place of append: the range goes before what is recorded
identity_bytes_front(code, bytes) == [code EXCEPT !.hash_input_ = bytes \o @]

\* hash_combine_range(identity, const unsigned char* begin, const unsigned char* end)
identity_bytes(code, bytes) == [code EXCEPT !.hash_input_ = @ \o bytes]

RECURSIVE Step(_, _)

\* a wrapper that forwards (begin, end - 1)
type_invariant_hash_short(hash_code, bytes) ==
  [hash_code EXCEPT !.impl_ =
     Step(@, [op |-> "hash_combine_range", bytes |-> SubSeq(bytes, 1, Len(bytes) - 1)])]

\* hash_combine_range(type_invariant_hash, unsigned char const*, unsigned char const*)
type_invariant_hash_bytes(hash_code, bytes) ==
  [hash_code EXCEPT !.impl_ = Step(@, [op |-> "hash_combine_range", bytes |-> bytes])]

\* one primitive call on the handle h: a byte range, by overload resolution on the type of
\* the handle; a byte given to type_invariant_fnv1a::mix; a byte the identity pushes back
Step(h, call) ==
  CASE call.op = "mix" -> [h EXCEPT !.state_ = fnv1a_mix(@, call.bytes[1])]
    [] call.op = "push_back" -> [h EXCEPT !.hash_input_ = Append(@, call.bytes[1])]
    [] call.op = "hash_combine_range" ->
         CASE h.alg = "farmhash" -> farmhash_bytes(h, call.bytes)
           [] h.alg = "fnv1a" -> fnv1a_bytes(h, call.bytes)
           [] h.alg = "type_invariant_fnv1a" -> type_invariant_fnv1a_bytes(h, call.bytes)
           [] h.alg = "identity" -> identity_bytes(h, call.bytes)
           [] h.alg = "type_invariant_hash" -> type_invariant_hash_bytes(h, call.bytes)

RECURSIVE Run(_, _)
\* the calls, in order, on the handle h
Run(h, calls) ==
  IF calls = <<>> THEN h ELSE Run(Step(h, Head(calls)), Tail(calls))

\* the handle h as the decomposition receives it
InFlight(h) == [alg |-> h.alg, calls |-> <<>>]

Call(hash_code, op, bytes) ==
  [hash_code EXCEPT !.calls = Append(@, [op |-> op, bytes |-> bytes])]

\* hash_combine_range(h, const unsigned char* begin, const unsigned char* end)
hash_combine_range_bytes(hash_code, bytes) == Call(hash_code, "hash_combine_range", bytes)

RECURSIVE result_type(_)
\* the conversion of a handle to its result_type
result_type(h) ==
  CASE h.alg = "farmhash" -> farmhash_result(h)
    [] h.alg \in {"fnv1a", "type_invariant_fnv1a"} -> h.state_
    [] h.alg = "identity" -> h.hash_input_
    [] h.alg = "type_invariant_hash" -> result_type(h.impl_)

Equivalent(a, b) == result_type(a) = result_type(b)

Algorithms ==
  {"farmhash", "fnv1a", "type_invariant_fnv1a", "identity",
   "type_invariant_hash<farmhash>", "type_invariant_hash<fnv1a>"}

\* StateAnd<HashCode>: a state_type object and the handle constructed over it; g is what the
\* storage of the state held before
StateAnd(a, g) ==
  CASE a = "farmhash" -> proxy(state(g))
    [] a = "fnv1a" -> [alg |-> "fnv1a", state_ |-> fnv1a_basis]
    [] a = "type_invariant_fnv1a" ->
         [alg |-> "type_invariant_fnv1a", state_ |-> fnv1a_basis]
    [] a = "identity" -> [alg |-> "identity", hash_input_ |-> <<>>]
    [] a = "type_invariant_hash<farmhash>" ->
         [alg |-> "type_invariant_hash", impl_ |-> proxy(state(g))]
    [] a = "type_invariant_hash<fnv1a>" ->
         [alg |-> "type_invariant_hash",
          impl_ |-> [alg |-> "fnv1a", state_ |-> fnv1a_basis]]

-----------------------------------------------------------------------------
(* The decomposition protocol: hash_value for the standard types and the   *)
(* types of the tests, hash_combine and hash_combine_range of each         *)
(* algorithm.  The values... of a variadic call are a sequence.            *)

RECURSIVE hash_value(_, _)
RECURSIVE hash_combine(_, _)
RECURSIVE hash_combine_range(_, _)
RECURSIVE hash_value_each(_, _)
RECURSIVE hash_combine_each(_, _)
RECURSIVE std_hash_combine(_, _)
RECURSIVE fnv1a_hash_combine_impl(_, _)
RECURSIVE type_invariant_fnv1a_hash_combine_impl(_, _)

\* hash_bytes that stops one byte short of start + sizeof(value)
hash_bytes_short(code, value) ==
  hash_combine_range_bytes(code, SubSeq(value.rep, 1, Len(value.rep) - 1))

\* detail::hash_bytes
hash_bytes(code, value) == hash_combine_range_bytes(code, value.rep)

\* hash_sized_container without the size
hash_unsized_container(code, container) == hash_combine_range(code, begin_end(container))

\* hash_sized_container that mixes the size of a container that has elements only
hash_nonempty_container(code, container) ==
  IF container.elems = <<>> THEN code
  ELSE hash_combine(hash_combine_range(code, begin_end(container)),
                    <<Integral(size_t.k, Len(container.elems))>>)

\* detail::hash_sized_container
hash_sized_container(code, container) ==
  hash_combine(hash_combine_range(code, begin_end(container)),
               <<Integral(size_t.k, Len(container.elems))>>)

\* a comparison of the bits with those of +0.0, which -0.0 fails
float_is_positive_zero(value) == \A i \in 1..Len(value.rep) : value.rep[i] = 0

\* value == 0 for a float or a double: +0.0 and -0.0 differ in the sign bit only
float_is_zero(value) ==
  LET n == Len(value.rep)
  IN  /\ \A i \in 1..(n - 1) : value.rep[i] = 0
      /\ value.rep[n] \in {0, 128}

\* static_cast<long>(short)
static_cast_long(value) ==
  LET n == Len(value.rep)
  IN  Scalar("long", value.rep \o [i \in 1..(8 - n) |->
                                     IF value.rep[n] >= 128 THEN 255 ELSE 0])

\* type_erased_hash_code(&hash_code): wrapper_ forwards every byte range to
\* hash_combine_range of *hash_code_; calls are the ranges it has forwarded
type_erased_hash_code(hash_code) == [alg |-> "type_erased_hash_code", calls |-> <<>>]

\* an adapter around a copy of the handle: what it forwards is lost with it
Pimpl_hash_value_of_copy(hash_code, pimpl) == hash_code

\* hash_value(HashCode, const Pimpl&): *pimpl.impl_ is hashed through the adapter and
\* hash_code returned
Pimpl_hash_value(hash_code, pimpl) ==
  [hash_code EXCEPT
     !.calls = @ \o hash_value(type_erased_hash_code(hash_code), pimpl.elems[1]).calls]

\* the overload resolution lost: the template hash_value(HashCode, InternedString) for
\* every hash code
InternedString_hash_value_template(hash_code, i) ==
  hash_combine(hash_code, <<Scalar("pointer", i.rep)>>)

\* hash_value(HashCode, InternedString) hashes i.str_; the overload for
\* hashing::type_invariant_fnv1a hashes *i.str_
InternedString_hash_value(hash_code, i) ==
  IF hash_code.alg = "type_invariant_fnv1a"
  THEN hash_combine(hash_code, <<i.elems[1]>>)
  ELSE hash_combine(hash_code, <<Scalar("pointer", i.rep)>>)

\* the overloads of hash_value, selected by the type of the value
hash_value(code, value) ==
  LET kind == value.T.k
  IN  CASE kind = "bool" ->
             hash_combine(code, <<Integral("unsigned char",
                                           IF value.rep # <<0>> THEN 1 ELSE 0)>>)
        [] is_integral(value.T) /\ kind # "bool" -> hash_bytes(code, value)
        [] kind = "float" ->
             hash_bytes(code, IF float_is_zero(value)
                              THEN Scalar(kind, [i \in 1..Len(value.rep) |-> 0])
                              ELSE value)
        [] kind = "pointer" -> hash_bytes(code, value)
        [] kind \in {"vector", "string", "array"} -> hash_sized_container(code, value)
        [] kind = "forward_list" ->
             hash_combine(hash_combine_each(code, value.elems),
                          <<Integral(size_t.k, Len(value.elems))>>)
        [] kind \in {"pair", "tuple"} -> hash_combine(code, value.elems)
        [] kind = "StructWithPadding" -> hash_combine(code, value.elems)
        [] kind = "CustomHashRep" ->
             hash_combine(code, <<static_cast_long(value.elems[1])>>)
        [] kind = "InternedString" -> InternedString_hash_value(code, value)
        [] kind = "Pimpl" -> Pimpl_hash_value(code, value)
        [] kind = "Impl" -> hash_combine(code, value.elems)

\* code = hash_value(std::move(code), *begin) for every element of a range
hash_value_each(code, elems) ==
  IF elems = <<>> THEN code
  ELSE hash_value_each(hash_value(code, Head(elems)), Tail(elems))

\* code = hash_combine(std::move(code), *begin) for every element of a range
hash_combine_each(code, elems) ==
  IF elems = <<>> THEN code
  ELSE hash_combine_each(hash_combine(code, <<Head(elems)>>), Tail(elems))

\* the hash_combine of namespace std that a handle without an overload of its own falls
\* back to: hash_value on each value in turn
std_hash_combine(hash_code, values) ==
  IF values = <<>> THEN hash_code
  ELSE std_hash_combine(hash_value(hash_code, Head(values)), Tail(values))

\* the unsigned char overload of a range wins over the iterator templates
is_byte_range(range) == range.it = "pointer" /\ range.T.k = "unsigned char"

can_hash_range_as_bytes(range) ==
  is_contiguous_iterator(range.it) /\ is_uniquely_represented(range.T)

\* farmhash::proxy: hash_combine
proxy_hash_combine(hash_code, values) ==
  IF values = <<>> THEN hash_code
  ELSE IF is_uniquely_represented(Head(values).T)
       THEN hash_combine(hash_combine_range_bytes(hash_code, Head(values).rep),
                         Tail(values))
       ELSE hash_combine(hash_value(hash_code, Head(values)), Tail(values))

\* farmhash::proxy: hash_combine_range over iterators
proxy_hash_combine_range(hash_code, range) ==
  IF can_hash_range_as_bytes(range)
  THEN hash_combine_range_bytes(hash_code, Memory(range.elems))
  ELSE hash_value_each(hash_code, range.elems)

\* fnv1a::hash_combine_impl
fnv1a_hash_combine_impl(hash_code, values) ==
  IF values = <<>> THEN hash_code
  ELSE IF is_uniquely_represented(Head(values).T)
       THEN fnv1a_hash_combine_impl(
              hash_combine_range_bytes(hash_code, Head(values).rep), Tail(values))
       ELSE fnv1a_hash_combine_impl(hash_combine(hash_code, <<Head(values)>>),
                                    Tail(values))

\* fnv1a: hash_combine(fnv1a, t, u, values...) takes two values or more
fnv1a_hash_combine(hash_code, values) ==
  IF Len(values) >= 2 THEN fnv1a_hash_combine_impl(hash_code, values)
  ELSE std_hash_combine(hash_code, values)

\* fnv1a: hash_combine_range over iterators
fnv1a_hash_combine_range(hash_code, range) ==
  IF can_hash_range_as_bytes(range)
  THEN hash_combine_range_bytes(hash_code, Memory(range.elems))
  ELSE hash_combine_each(hash_code, range.elems)

\* type_invariant_fnv1a::hash_combine_impl
type_invariant_fnv1a_hash_combine_impl(hash_code, values) ==
  IF values = <<>> THEN hash_code
  ELSE IF Head(values).T.k = "unsigned char"
       THEN type_invariant_fnv1a_hash_combine_impl(
              Call(hash_code, "mix", Head(values).rep), Tail(values))
       ELSE type_invariant_fnv1a_hash_combine_impl(
              hash_combine(hash_code, <<Head(values)>>), Tail(values))

\* type_invariant_fnv1a: hash_combine(type_invariant_fnv1a, t, u, values...)
type_invariant_fnv1a_hash_combine(hash_code, values) ==
  IF Len(values) >= 2 THEN type_invariant_fnv1a_hash_combine_impl(hash_code, values)
  ELSE std_hash_combine(hash_code, values)

\* type_invariant_fnv1a: hash_combine_range over iterators
type_invariant_fnv1a_hash_combine_range(hash_code, range) ==
  hash_combine_each(hash_code, range.elems)

\* identity: hash_combine
identity_hash_combine(code, values) ==
  IF values = <<>> THEN code
  ELSE IF Head(values).T.k = "unsigned char"
       THEN hash_combine(Call(code, "push_back", Head(values).rep), Tail(values))
       ELSE hash_combine(hash_value(code, Head(values)), Tail(values))

\* identity: hash_combine_range over iterators
identity_hash_combine_range(code, range) == hash_value_each(code, range.elems)

\* type_invariant_hash<HashCode> declares hashes_exact_representation and only the byte
\* range: its values go through hash_value, whatever is_uniquely_represented says
type_invariant_hash_combine(hash_code, values) == std_hash_combine(hash_code, values)

\* a range overload that hashes the memory of a contiguous range of a
\* uniquely-represented type, as farmhash and fnv1a do
type_invariant_hash_combine_range_or_bytes(hash_code, range) ==
  IF can_hash_range_as_bytes(range)
  THEN hash_combine_range_bytes(hash_code, Memory(range.elems))
  ELSE hash_value_each(hash_code, range.elems)

type_invariant_hash_combine_range(hash_code, range) ==
  hash_value_each(hash_code, range.elems)

\* hash_combine(type_erased_hash_code, const T&, const Ts&...)
type_erased_hash_combine(hash_code, values) == hash_value_each(hash_code, values)

\* hash_combine_range(type_erased_hash_code, InputIterator, InputIterator)
type_erased_hash_combine_range(hash_code, range) ==
  hash_value_each(hash_code, range.elems)

\* overload resolution on the type of the handle
hash_combine(hash_code, values) ==
  CASE hash_code.alg = "farmhash" -> proxy_hash_combine(hash_code, values)
    [] hash_code.alg = "fnv1a" -> fnv1a_hash_combine(hash_code, values)
    [] hash_code.alg = "type_invariant_fnv1a" ->
         type_invariant_fnv1a_hash_combine(hash_code, values)
    [] hash_code.alg = "identity" -> identity_hash_combine(hash_code, values)
    [] hash_code.alg = "type_invariant_hash" ->
         type_invariant_hash_combine(hash_code, values)
    [] hash_code.alg = "type_erased_hash_code" ->
         type_erased_hash_combine(hash_code, values)

\* a hash_combine_range that mixes the number of elements after them, as
\* hash_sized_container does for a container: an empty range then mixes a count of 0
hash_combine_range_counted(hash_code, range) ==
  hash_combine(hash_value_each(hash_code, range.elems),
               <<Integral(size_t.k, Len(range.elems))>>)

hash_combine_range(hash_code, range) ==
  IF is_byte_range(range)
  THEN hash_combine_range_bytes(hash_code, Memory(range.elems))
  ELSE CASE hash_code.alg = "farmhash" -> proxy_hash_combine_range(hash_code, range)
         [] hash_code.alg = "fnv1a" -> fnv1a_hash_combine_range(hash_code, range)
         [] hash_code.alg = "type_invariant_fnv1a" ->
              type_invariant_fnv1a_hash_combine_range(hash_code, range)
         [] hash_code.alg = "identity" -> identity_hash_combine_range(hash_code, range)
         [] hash_code.alg = "type_invariant_hash" ->
              type_invariant_hash_combine_range(hash_code, range)
         [] hash_code.alg = "type_erased_hash_code" ->
              type_erased_hash_combine_range(hash_code, range)

RECURSIVE simple_hash_combine(_, _)
RECURSIVE simple_hash_combine_each(_, _)

\* detail::hash_value_or_bytes; tag is the std::true_type or std::false_type argument
hash_value_or_bytes(hash_code, value, tag) ==
  IF tag THEN hash_combine_range_bytes(hash_code, value.rep)
  ELSE hash_value(hash_code, value)

simple_hash_combine(hash_code, values) ==
  IF values = <<>> THEN hash_code
  ELSE simple_hash_combine(
         hash_value_or_bytes(hash_code, Head(values),
                             is_uniquely_represented(Head(values).T)),
         Tail(values))

\* hash_code = simple_hash_combine(std::move(hash_code), *begin) for every element
simple_hash_combine_each(hash_code, elems) ==
  IF elems = <<>> THEN hash_code
  ELSE simple_hash_combine_each(simple_hash_combine(hash_code, <<Head(elems)>>),
                                Tail(elems))

\* detail::hash_range_or_bytes
hash_range_or_bytes(hash_code, range, tag) ==
  IF tag THEN hash_combine_range_bytes(hash_code, Memory(range.elems))
  ELSE simple_hash_combine_each(hash_code, range.elems)

simple_hash_combine_range(hash_code, range) ==
  hash_range_or_bytes(hash_code, range, can_hash_range_as_bytes(range))

-----------------------------------------------------------------------------
(* Streaming: the same bytes reach two FarmHash handles in different splits *)

MaxInput == 194

\* the lengths of the byte ranges one call may carry
ChunkLens == {0, 40, 63, 64, 65, 130}

\* what the uninitialized storage of a farmhash::state may hold
Garbage == {0, 170}

StreamInputs ==
  { [i \in 1..MaxInput |-> (7 * (i - 1) + 3) % 256],
    [i \in 1..MaxInput |-> 255 - ((i - 1) % 5)] }

DecompIdle ==
  /\ alg = "none" /\ args = <<>> /\ k = 0
  /\ h1 = <<>> /\ h2 = <<>> /\ h3 = <<>> /\ pc = "idle"

StreamInit ==
  /\ input \in StreamInputs
  /\ posA = 0 /\ posB = 0
  /\ \E g \in Garbage : hA = proxy(state(g))
  /\ \E g \in Garbage : hB = proxy(state(g))
  /\ DecompIdle

FeedA ==
  \E n \in ChunkLens :
    /\ posA + n <= Len(input)
    /\ hA' = farmhash_bytes(hA, SubSeq(input, posA + 1, posA + n))
    /\ posA' = posA + n
    /\ UNCHANGED <<input, posB, hB, decompVars>>

FeedB ==
  \E n \in ChunkLens :
    /\ posB + n <= Len(input)
    /\ hB' = farmhash_bytes(hB, SubSeq(input, posB + 1, posB + n))
    /\ posB' = posB + n
    /\ UNCHANGED <<input, posA, hA, decompVars>>

StreamNext == FeedA \/ FeedB

SpecStream == StreamInit /\ [][StreamNext]_vars

\* the input bytes a handle holds that no mix() has consumed
Buffered(h) == SubSeq(h.state_.buffer_, 1, h.buffer_next_)

\* C1: handles that were fed the same bytes, however split into byte-range calls, have
\* the same cursor offset, the same mixed_ flag, the same sequence of mixed blocks, the
\* same buffered bytes and the same digest.
C1_SplitIndependent ==
  posA = posB =>
    /\ hA.buffer_next_ = hB.buffer_next_
    /\ hA.mixed_ = hB.mixed_
    /\ hA.state_.mixlog = hB.state_.mixlog
    /\ Buffered(hA) = Buffered(hB)
    /\ farmhash_result(hA) = farmhash_result(hB)

\* both handles hold 130 bytes, which splits such as 130, 65+65 and 40+40+40+0+10 reach:
\* two blocks are mixed and two bytes wait in the buffer
C1_Witness ==
  /\ posA = 130 /\ posB = 130
  /\ Len(hA.state_.mixlog) = 2 /\ Len(hB.state_.mixlog) = 2
  /\ hA.mixed_ /\ hA.buffer_next_ = 2

\* C22: after any sequence of byte-range calls the cursor of FarmHash is between 0 and
\* 64 bytes into the buffer, at 0 only while no input byte has been processed, and no
\* memcpy has written outside the 64 bytes of the buffer
C22_CursorInvariant ==
  \A side \in {<<hA, posA>>, <<hB, posB>>} :
    LET h == side[1]
        pos == side[2]
    IN  /\ h.buffer_next_ \in 0..64
        /\ (h.buffer_next_ = 0) <=> (pos = 0)
        /\ DOMAIN h.state_.buffer_ = 1..64
        /\ Buffered(h) = SubSeq(input, pos - h.buffer_next_ + 1, pos)

\* one handle holds a full buffer that was never mixed, the other took the whole input
C22_Witness ==
  /\ posA = 64 /\ hA.buffer_next_ = 64 /\ ~hA.mixed_
  /\ posB = MaxInput /\ hB.buffer_next_ = MaxInput - 192 /\ hB.mixed_

\* C23: mixed_ is true exactly when mix() has been called, which is exactly when at
\* least 65 bytes have been fed; initialize() is called at most once, immediately
\* before the first mix(): the registers are those of initialize() on the first block
\* followed by one mix() per block
C23_MixedFlag ==
  \A side \in {<<hA, posA>>, <<hB, posB>>} :
    LET h == side[1]
        pos == side[2]
        blocks == h.state_.mixlog
        RECURSIVE Mixed(_, _)
        Mixed(s, i) ==
          IF i > Len(blocks) \/ Len(s.x_) # 8 THEN s
          ELSE Mixed(mix([s EXCEPT !.buffer_ = blocks[i]]), i + 1)
        expected == Mixed(initialize([h.state_ EXCEPT !.buffer_ = blocks[1],
                                                      !.mixlog = <<>>, !.inits = 0]), 1)
    IN  /\ h.mixed_ <=> Len(blocks) > 0
        /\ h.mixed_ <=> pos >= 65
        /\ h.state_.inits = IF h.mixed_ THEN 1 ELSE 0
        /\ h.mixed_ =>
             /\ h.state_.x_ = expected.x_ /\ h.state_.y_ = expected.y_
             /\ h.state_.z_ = expected.z_
             /\ h.state_.v_ = expected.v_ /\ h.state_.w_ = expected.w_
             /\ blocks = expected.mixlog

\* 64 bytes fed and nothing mixed on one side, 65 bytes fed and one block mixed on the other
C23_Witness ==
  /\ posA = 64 /\ ~hA.mixed_ /\ hA.state_.inits = 0
  /\ posB = 65 /\ hB.mixed_ /\ hB.state_.inits = 1 /\ Len(hB.state_.mixlog) = 1

\* C24: every mix() runs after initialize() on a buffer of 64 input bytes that no
\* earlier mix() saw: the k-th mix() sees the input bytes 64(k-1) to 64k-1 in order,
\* and when the handle is returned at least one unmixed input byte is in the buffer
C24_MixSeesEachBlockOnce ==
  \A side \in {<<hA, posA>>, <<hB, posB>>} :
    LET h == side[1]
        pos == side[2]
        blocks == h.state_.mixlog
    IN  /\ \A i \in 1..Len(blocks) : blocks[i] = SubSeq(input, 64 * (i - 1) + 1, 64 * i)
        /\ Len(blocks) > 0 =>
             /\ h.state_.inits = 1
             /\ h.buffer_next_ >= 1
        /\ 64 * Len(blocks) + h.buffer_next_ = pos
        /\ Buffered(h) = SubSeq(input, 64 * Len(blocks) + 1, pos)

\* three blocks were mixed in one call of 130 bytes after one of 64 and before the rest
C24_Witness ==
  /\ posA = MaxInput /\ Len(hA.state_.mixlog) = 3 /\ hA.buffer_next_ = MaxInput - 192
  /\ posB = 129 /\ Len(hB.state_.mixlog) = 2 /\ hB.buffer_next_ = 1

-----------------------------------------------------------------------------
(* Combining: the values of one vector reach three handles of one         *)
(* algorithm, by a loop of hash_combine calls, by one variadic            *)
(* hash_combine, and by hash_combine_range over the vector's iterators.   *)

MaxArgs == 10

IntegralTypes == {"int", "unsigned int", "char", "unsigned char", "long", "unsigned long"}

\* std::iota(v.begin(), v.end(), Int(0)) on a vector<Int> of n elements
Iota(kind, n) == Container("vector", Ty(kind), [i \in 1..n |-> Integral(kind, i - 1)])

\* Int(0), limits::max() and limits::min() of a signed or an unsigned type
Limits(kind) ==
  LET n == SizeOf(Ty(kind))
      signed == kind \in {"int", "char", "long"}
      max == [i \in 1..n |-> IF i = n /\ signed THEN 127 ELSE 255]
      min == [i \in 1..n |-> IF i = n /\ signed THEN 128 ELSE 0]
  IN  Container("vector", Ty(kind),
                <<Integral(kind, 0), Scalar(kind, max), Scalar(kind, min)>>)

CombineArgs ==
  { Iota(kind, n) : kind \in IntegralTypes, n \in {0, 5, MaxArgs} }
    \cup { Limits(kind) : kind \in IntegralTypes }

StreamIdle ==
  /\ input = <<>> /\ posA = 0 /\ posB = 0 /\ hA = <<>> /\ hB = <<>>

CombineInit ==
  /\ alg \in Algorithms
  /\ args \in CombineArgs
  /\ k = 0
  /\ \E g \in Garbage : h1 = StateAnd(alg, g)
  /\ \E g \in Garbage : h2 = StateAnd(alg, g)
  /\ \E g \in Garbage : h3 = StateAnd(alg, g)
  /\ pc = "loop"
  /\ StreamIdle

\* for (...) s.hash_code = hash_combine(std::move(s.hash_code), Int(i));
LoopStep ==
  /\ pc = "loop" /\ k < Len(args.elems)
  /\ h1' = Run(h1, hash_combine(InFlight(h1), <<args.elems[k + 1]>>).calls)
  /\ k' = k + 1
  /\ UNCHANGED <<alg, args, h2, h3, pc, streamVars>>

\* after the loop: hash_combine(StateAnd<HashCode>().hash_code, Int(0), Int(1), ...)
Variadic ==
  /\ pc = "loop" /\ k = Len(args.elems)
  /\ h2' = Run(h2, hash_combine(InFlight(h2), args.elems).calls)
  /\ pc' = "variadic"
  /\ UNCHANGED <<alg, args, k, h1, h3, streamVars>>

\* hash_combine_range(StateAnd<HashCode>().hash_code, v.begin(), v.end())
RangeCall ==
  /\ pc = "variadic"
  /\ h3' = Run(h3, hash_combine_range(InFlight(h3), begin_end(args)).calls)
  /\ pc' = "range"
  /\ UNCHANGED <<alg, args, k, h1, h2, streamVars>>

CombineNext == LoopStep \/ Variadic \/ RangeCall

SpecCombine == CombineInit /\ [][CombineNext]_vars

\* C2: once the loop has mixed every value, its handle is equivalent to the handle of the
\* single variadic hash_combine and to the handle of hash_combine_range over the vector,
\* for every algorithm and every integral element type.
C2_LoopVariadicRange ==
  /\ pc \in {"variadic", "range"} => Equivalent(h1, h2)
  /\ pc = "range" => Equivalent(h1, h3) /\ Equivalent(h2, h3)

\* the long values 0..MaxArgs-1 (more than one 64-byte block) went through all three
\* calls of FarmHash, the three states having started from different storage
C2_Witness ==
  /\ alg = "farmhash" /\ args = Iota("long", MaxArgs)
  /\ k = MaxArgs /\ pc = "range"
  /\ h1.mixed_ /\ h2.mixed_ /\ h3.mixed_

-----------------------------------------------------------------------------
(* Paths: a contiguous region of values of a uniquely-represented type     *)
(* reaches one handle as a single byte range, a second handle value by     *)
(* value through hash_value, a third value by value as bytes.              *)

MaxRegion == 3

\* element values of the types the library marks uniquely represented
PathElements ==
  { {Integral("int", i) : i \in {-1, 2}},
    {Integral("long", i) : i \in {-2, 70000}},
    {Integral("unsigned char", i) : i \in {97, 255}},
    {Integral("short", i) : i \in {-3, 515}},
    {Scalar("pointer", <<16 * i, 32, 64, 0, 0, 127, 0, 0>>) : i \in 1..2},
    {Pair(Integral("int", i), <<>>, Integral("int", 7 - i)) : i \in 1..2},
    {Array(Ty("int"), <<Integral("int", i), Integral("int", i + 1)>>) : i \in 1..2} }

RECURSIVE Regions(_, _)
\* the arrays T[n] over the values of one type
Regions(values, n) ==
  IF n = 0 THEN {<<>>}
  ELSE {Append(r, v) : r \in Regions(values, n - 1), v \in values}

PathArgs ==
  UNION { {Array((CHOOSE v \in values : TRUE).T, r) : r \in Regions(values, n)} :
          values \in PathElements, n \in {0, 1, MaxRegion} }

PathInit ==
  /\ alg \in Algorithms
  /\ args \in PathArgs
  /\ k = 0
  /\ \E g \in Garbage : h1 = StateAnd(alg, g)
  /\ \E g \in Garbage : h2 = StateAnd(alg, g)
  /\ \E g \in Garbage : h3 = StateAnd(alg, g)
  /\ pc = "start"
  /\ StreamIdle

\* detail::hash_range_or_bytes(hash_code, begin, end, std::true_type) over the region
FastRange ==
  /\ pc = "start"
  /\ h1' = Run(h1, hash_range_or_bytes(InFlight(h1),
                                       Range("pointer", args.T.of[1], args.elems),
                                       TRUE).calls)
  /\ pc' = "range"
  /\ UNCHANGED <<alg, args, k, h2, h3, streamVars>>

\* detail::hash_value_or_bytes(hash_code, value, std::true_type) on the next value
FastValue ==
  /\ pc = "range" /\ k < Len(args.elems)
  /\ h3' = Run(h3, hash_value_or_bytes(InFlight(h3), args.elems[k + 1], TRUE).calls)
  /\ pc' = "value"
  /\ UNCHANGED <<alg, args, k, h1, h2, streamVars>>

\* hash_code = hash_value(std::move(hash_code), *begin); ++begin;
SlowValue ==
  /\ pc = "value"
  /\ h2' = Run(h2, hash_value(InFlight(h2), args.elems[k + 1]).calls)
  /\ k' = k + 1
  /\ pc' = "range"
  /\ UNCHANGED <<alg, args, h1, h3, streamVars>>

PathNext == FastRange \/ FastValue \/ SlowValue

SpecPaths == PathInit /\ [][PathNext]_vars

\* C3: for a contiguous range of values of a uniquely-represented type, the byte-level
\* path (one byte range over the region, or the bytes of one value) ends in a handle
\* equivalent to the one the iterative path through hash_value ends in, for every
\* algorithm; under the identity recorder that is the same byte sequence.
C3_FastEqualsSlow ==
  pc = "range" =>
    /\ Equivalent(h3, h2)
    /\ k = Len(args.elems) => Equivalent(h1, h2)

\* the same statement for every element type but std::array
C3_FastEqualsSlowButArray ==
  args.T.of[1].k # "array" => C3_FastEqualsSlow

\* a region of one std::array<int, 2> under the identity recorder: the byte range has
\* recorded the 8 bytes of the region, hash_value the two elements and the size_t count
C3_Witness ==
  /\ alg = "identity" /\ args.T.of[1].k = "array" /\ Len(args.elems) = 1
  /\ pc = "range" /\ k = 1
  /\ h1.hash_input_ = args.rep /\ h3.hash_input_ = args.rep
  /\ h2.hash_input_ = args.rep \o <<2, 0, 0, 0, 0, 0, 0, 0>>

-----------------------------------------------------------------------------
(* No-ops: between the values of a loop of hash_combine calls, the handle  *)
(* goes through hash_combine of no values and hash_combine_range over an   *)
(* empty range; h2 keeps the handle as it was before the last call, h3 a   *)
(* freshly constructed handle of the same algorithm.                       *)

\* std::make_iterator_range(v.begin(), v.end()) of an empty container, and (p, p)
EmptyRanges ==
  { Range(it, Ty(kind), <<>>) :
      it \in {"vector::iterator", "pointer"}, kind \in {"int", "unsigned char"} }

NoOpInit ==
  /\ alg \in Algorithms
  /\ args \in CombineArgs
  /\ k = 0
  /\ \E g \in Garbage : h1 = StateAnd(alg, g)
  /\ h2 = h1
  /\ \E g \in Garbage : h3 = StateAnd(alg, g)
  /\ pc = "fresh"
  /\ StreamIdle

\* s.hash_code = hash_combine(std::move(s.hash_code), Int(i));
MixValue ==
  /\ k < Len(args.elems)
  /\ h1' = Run(h1, hash_combine(InFlight(h1), <<args.elems[k + 1]>>).calls)
  /\ h2' = h1
  /\ k' = k + 1
  /\ pc' = "mixed"
  /\ UNCHANGED <<alg, args, h3, streamVars>>

\* hash_combine(std::move(s.hash_code))
EmptyCombine ==
  /\ pc # "empty_combine"
  /\ h1' = Run(h1, hash_combine(InFlight(h1), <<>>).calls)
  /\ h2' = h1
  /\ pc' = "empty_combine"
  /\ UNCHANGED <<alg, args, k, h3, streamVars>>

\* hash_combine_range(std::move(s.hash_code), v.begin(), v.end()), v empty
EmptyRange ==
  /\ pc # "empty_range"
  /\ \E range \in EmptyRanges :
       h1' = Run(h1, hash_combine_range(InFlight(h1), range).calls)
  /\ h2' = h1
  /\ pc' = "empty_range"
  /\ UNCHANGED <<alg, args, k, h3, streamVars>>

NoOpNext == MixValue \/ EmptyCombine \/ EmptyRange

SpecNoOp == NoOpInit /\ [][NoOpNext]_vars

\* C4: for every algorithm, hash_combine of no values and hash_combine_range over an
\* empty range return the handle they were given: no byte is buffered, no register
\* changes, the cursor does not move, so the result is equivalent to the handle before
\* the call, and on a fresh handle it is equivalent to a freshly constructed handle.
C4_NoOp ==
  pc \in {"empty_combine", "empty_range"} =>
    /\ h1 = h2
    /\ Equivalent(h1, h2)
    /\ k = 0 => Equivalent(h1, h3)

\* FarmHash took an empty range while its buffer held exactly 64 unmixed bytes
C4_Witness ==
  /\ alg = "farmhash" /\ args.T.of[1].k = "long"
  /\ pc = "empty_range" /\ h1.buffer_next_ = 64 /\ ~h1.mixed_

-----------------------------------------------------------------------------
(* Equal operands: the same call is made twice, on operands that compare   *)
(* equal, each time on a freshly constructed handle; the second state may  *)
(* live in the storage the first computation left behind.                  *)

\* what each call is made on: a value for hash_value, the pack of values for
\* hash_combine, a pair of iterators for hash_combine_range
EqualOperands ==
  LET String(chars) ==
        Container("string", Ty("char"), [i \in 1..Len(chars) |-> Integral("char", chars[i])])
      InternedString(p, chars) ==
        [T |-> Ty("InternedString"), rep |-> <<16 * p, 32, 64, 0, 0, 127, 0, 0>>,
         elems |-> <<String(chars)>>]
      CustomHashRep(v) ==
        [T |-> Ty("CustomHashRep"), rep |-> ToBytes(v, 2), elems |-> <<Integral("short", v)>>]
      StructWithPadding(c, g, i) ==
        [T |-> Ty("StructWithPadding"),
         rep |-> ToBytes(c, 1) \o <<g, g, g>> \o ToBytes(i, 4),
         elems |-> <<Integral("char", c), Integral("int", i)>>]
      Structs(g, n) == [i \in 1..n |-> StructWithPadding(48 + i - 1, g, i - 1)]
      Ints(n) == [i \in 1..n |-> Integral("int", 5 - i)]
      Impl == [T |-> Ty("Impl"), rep |-> <<>>,
               elems |-> <<Container("vector", Ty("int"),
                                     [i \in 1..3 |-> Integral("int", i)]),
                           String(<<97, 98, 99>>)>>]
      Pimpl == [T |-> Ty("Pimpl"), rep |-> <<48, 32, 64, 0, 0, 127, 0, 0>>,
                elems |-> <<Impl>>]
      abc == <<97, 98, 99>>
      Values ==
        { Integral("int", 7), Integral("bool", 1), Scalar("float", <<0, 0, 128, 63>>),
          Scalar("pointer", <<16, 32, 64, 0, 0, 127, 0, 0>>), String(abc),
          Iota("long", MaxArgs), Container("forward_list", Ty("int"), Ints(3)),
          Array(Ty("int"), Ints(3)),
          Pair(Integral("char", 97), <<170, 170, 170>>, Integral("int", 1)),
          InternedString(1, abc), CustomHashRep(3), StructWithPadding(48, 255, 0),
          Pimpl }
      Sequences(elems, T) ==
        { Container("vector", T, elems), Array(T, elems),
          Container("forward_list", T, elems) }
      Pack(values) == [values |-> values]
      Call2(op, x, y) == [op |-> op, x |-> x, y |-> y]
  IN  { Call2("hash_value", v, v) : v \in Values }
      \cup { Call2("hash_combine", Pack(<<v, w>>), Pack(<<v, w>>)) : v, w \in Values }
      \cup { Call2("hash_combine_range", begin_end(v), begin_end(v)) :
               v \in {Iota("long", MaxArgs), String(abc), Array(Ty("int"), Ints(3))} }
      \* +0.0f and -0.0f
      \cup { Call2("hash_value", Scalar("float", <<0, 0, 0, a>>),
                   Scalar("float", <<0, 0, 0, b>>)) : a, b \in {0, 128} }
      \* hash_combine(h, s1[0], s1[1]) and hash_combine(h, s2[0], s1[1]); the ranges
      \* (s1, s1 + kNumStructs) and (s2, s2 + kNumStructs)
      \cup { Call2("hash_combine", Pack(<<Structs(255, 2)[1], Structs(255, 2)[2]>>),
                   Pack(<<Structs(g, 2)[1], Structs(255, 2)[2]>>)) : g \in Garbage }
      \cup { Call2("hash_combine_range",
                   Range("pointer", Ty("StructWithPadding"), Structs(255, MaxArgs)),
                   Range("pointer", Ty("StructWithPadding"), Structs(g, MaxArgs))) :
               g \in Garbage }
      \* std::vector<InternedString> and std::vector<std::string> {"a", "b", "c"}
      \cup { Call2("hash_value",
                   Container("vector", Ty("InternedString"),
                             [i \in 1..n |-> InternedString(i, <<abc[i]>>)]),
                   Container("vector", Ty("string"),
                             [i \in 1..n |-> String(<<abc[i]>>)])) : n \in {0, 3} }
      \* CustomHashRep structs[3] = {{1}, {2}, {3}} and long equivalent[3] = {1, 2, 3}
      \cup { Call2("hash_combine_range",
                   Range("pointer", Ty("CustomHashRep"), [i \in 1..n |-> CustomHashRep(i)]),
                   Range("pointer", Ty("long"), [i \in 1..n |-> Integral("long", i)])) :
               n \in {0, 3} }
      \* a vector, a std::array and a forward_list of equal elements; "abc"
      \cup { Call2("hash_value", v, w) :
               v, w \in Sequences(Ints(0), Ty("int")) \cup Sequences(Ints(3), Ty("int")) }
      \cup UNION { { Call2("hash_value", String(str), v) :
                       v \in Sequences(String(str).elems, Ty("char")) } :
                   str \in {<<>>, abc} }

\* the call op on a handle: hash_value(h, x), hash_combine(h, x...), hash_combine_range(h, x)
Apply(h, op, x) ==
  Run(h, (CASE op = "hash_value" -> hash_value(InFlight(h), x)
            [] op = "hash_combine" -> hash_combine(InFlight(h), x.values)
            [] op = "hash_combine_range" -> hash_combine_range(InFlight(h), x)).calls)

EqualInit ==
  /\ alg \in Algorithms
  /\ args \in EqualOperands
  /\ k = 0
  /\ \E g \in Garbage : h1 = StateAnd(alg, g)
  /\ \E g \in Garbage : h2 = StateAnd(alg, g)
  /\ h3 = <<>>
  /\ pc = "fresh"
  /\ StreamIdle

\* the first computation
HashX ==
  /\ pc = "fresh"
  /\ h1' = Apply(h1, args.op, args.x)
  /\ pc' = "first"
  /\ UNCHANGED <<alg, args, k, h2, h3, streamVars>>

\* the second computation: hashing::farmhash::state_type state; is not initialized, so
\* it holds either what StateAnd found there or (k = 1) what the first computation left
HashY ==
  /\ pc = "first"
  /\ \E reuse \in BOOLEAN :
       LET left == [h1.state_ EXCEPT !.mixlog = <<>>, !.inits = 0]
           fresh == CASE ~reuse -> h2
                      [] reuse /\ alg = "farmhash" -> proxy(left)
                      [] reuse /\ alg = "type_invariant_hash<farmhash>" ->
                           [h2 EXCEPT !.impl_ =
                              proxy([h1.impl_.state_ EXCEPT !.mixlog = <<>>, !.inits = 0])]
                      [] OTHER -> h2
       IN  /\ h2' = Apply(fresh, args.op, args.y)
           /\ k' = IF reuse THEN 1 ELSE 0
  /\ pc' = "second"
  /\ UNCHANGED <<alg, args, h1, h3, streamVars>>

EqualNext == HashX \/ HashY

SpecEqual == EqualInit /\ [][EqualNext]_vars

\* C5: two computations started from freshly constructed handles, each with its own
\* freshly constructed state, and fed equal values end in equal digests, for every
\* algorithm; two fresh handles with nothing mixed are equivalent; what an earlier
\* computation left in the storage of the state has no influence.
C5_Deterministic ==
  /\ pc = "fresh" => Equivalent(h1, h2)
  /\ (pc = "second" /\ args.x = args.y) => Equivalent(h1, h2)

\* FarmHash hashed a value of more than 64 bytes a second time, in the storage that the
\* first computation had used
C5_Witness ==
  /\ alg = "farmhash" /\ pc = "second" /\ k = 1
  /\ args.op = "hash_value" /\ args.x = args.y
  /\ h1.mixed_ /\ h2.mixed_

\* C6: hash_value replaces a floating-point value that compares equal to zero by
\* positive zero before it takes the bytes: +0.0 and -0.0 feed the same bytes (four
\* zero bytes for a float) and get the same digest from every algorithm, FarmHash of
\* std_::hash<float> included.
C6_FloatZero ==
  LET zero(v) == v.T.k = "float" /\ SubSeq(v.rep, 1, 3) = <<0, 0, 0>> /\ v.rep[4] \in {0, 128}
  IN  (pc = "second" /\ args.op = "hash_value" /\ zero(args.x) /\ zero(args.y)) =>
        /\ Equivalent(h1, h2)
        /\ alg = "identity" =>
             h1.hash_input_ = <<0, 0, 0, 0>> /\ h2.hash_input_ = <<0, 0, 0, 0>>

\* std_::hash<float>{}(+0.0f) and std_::hash<float>{}(-0.0f) have both been computed
C6_Witness ==
  /\ alg = "farmhash" /\ pc = "second" /\ args.op = "hash_value"
  /\ args.x.T.k = "float"
  /\ args.x.rep = <<0, 0, 0, 0>> /\ args.y.rep = <<0, 0, 0, 128>>
  /\ h1.buffer_next_ = 4 /\ h2.buffer_next_ = 4

\* C7: a struct with padding that is not marked uniquely represented and decomposes
\* into its fields (c, i) feeds the algorithm the bytes of c and of i only: two regions
\* of field-wise equal structs with different padding bytes hash equivalently, as
\* values of one hash_combine and as a range, for every algorithm.
C7_PaddingInsensitive ==
  LET structs(x) == IF args.op = "hash_combine" THEN x.values ELSE x.elems
      padded(x) == \A i \in 1..Len(structs(x)) : structs(x)[i].T.k = "StructWithPadding"
      fields(x) == [j \in 1..(2 * Len(structs(x))) |->
                      structs(x)[(j + 1) \div 2].elems[2 - (j % 2)]]
  IN  ( /\ pc = "second" /\ args.op \in {"hash_combine", "hash_combine_range"}
        /\ padded(args.x) /\ padded(args.y) /\ fields(args.x) = fields(args.y) ) =>
        /\ Equivalent(h1, h2)
        /\ alg = "identity" =>
             /\ h1.hash_input_ = Memory(fields(args.x))
             /\ h2.hash_input_ = Memory(fields(args.y))

\* FarmHash hashed the range of kNumStructs structs of both regions, whose padding bytes
\* differ
C7_Witness ==
  /\ alg = "farmhash" /\ pc = "second" /\ args.op = "hash_combine_range"
  /\ args.x.T.k = "StructWithPadding" /\ Len(args.x.elems) = MaxArgs
  /\ \A i \in 1..MaxArgs :
       /\ args.x.elems[i].elems = args.y.elems[i].elems
       /\ args.x.elems[i].rep # args.y.elems[i].rep
  /\ h1.buffer_next_ = 5 * MaxArgs

\* C8: under type_invariant_fnv1a a vector of InternedString and a vector of
\* std::string holding the same strings in the same order are decomposed into the same
\* bytes (the characters of each string, then its length, then the length of the
\* vector) and so have the same digest, although InternedString is marked uniquely
\* represented and its generic hash_value hashes its pointer.
C8_TypeInvariance ==
  LET n == Len(args.y.elems)
      strings == [i \in 1..n |->
                    [rep |-> Memory(args.y.elems[i].elems)
                               \o ToBytes(Len(args.y.elems[i].elems), 8)]]
      bytes == Memory(strings) \o ToBytes(n, 8)
      fed == type_invariant_fnv1a_bytes(StateAnd(alg, 0), bytes)
  IN  ( /\ pc = "second" /\ alg = "type_invariant_fnv1a" /\ args.op = "hash_value"
        /\ args.x.T.k = "vector" /\ args.x.T.of[1].k = "InternedString"
        /\ is_uniquely_represented(args.x.T.of[1])
        /\ args.y.T.k = "vector" /\ args.y.T.of[1].k = "string"
        /\ Len(args.x.elems) = n
        /\ \A i \in 1..n : args.x.elems[i].elems[1] = args.y.elems[i] ) =>
        /\ Equivalent(h1, h2)
        /\ Equivalent(h1, fed) /\ Equivalent(h2, fed)

\* the vectors {"a", "b", "c"} of the two string types have been hashed
C8_Witness ==
  /\ alg = "type_invariant_fnv1a" /\ pc = "second" /\ args.op = "hash_value"
  /\ args.x.T.k = "vector" /\ args.x.T.of[1].k = "InternedString"
  /\ args.y.T.k = "vector" /\ args.y.T.of[1].k = "string"
  /\ Len(args.x.elems) = 3 /\ Len(args.y.elems) = 3
  /\ h1.state_ # fnv1a_basis

\* C9: the identity recorder, type_invariant_hash<farmhash> and
\* type_invariant_hash<fnv1a> never hash the memory of a value, not even of a type
\* marked uniquely represented: a range of CustomHashRep {1}, {2}, {3}, whose
\* decomposition mixes static_cast<long>(value), ends in a handle equivalent to the one
\* of a range of long 1, 2, 3.
C9_NoRawMemory ==
  ( /\ pc = "second" /\ args.op = "hash_combine_range"
    /\ alg \in {"identity", "type_invariant_hash<farmhash>", "type_invariant_hash<fnv1a>"}
    /\ args.x.T.k = "CustomHashRep" /\ is_uniquely_represented(args.x.T)
    /\ args.y.T.k = "long"
    /\ Len(args.x.elems) = Len(args.y.elems)
    /\ \A i \in 1..Len(args.x.elems) :
         static_cast_long(args.x.elems[i].elems[1]) = args.y.elems[i] ) =>
    /\ Equivalent(h1, h2)
    /\ alg = "identity" => h1.hash_input_ = Memory(args.y.elems)

\* type_invariant_hash<farmhash> hashed structs[3] and equivalent[3]
C9_Witness ==
  /\ alg = "type_invariant_hash<farmhash>" /\ pc = "second"
  /\ args.op = "hash_combine_range"
  /\ args.x.T.k = "CustomHashRep" /\ args.y.T.k = "long" /\ Len(args.x.elems) = 3
  /\ h1.impl_.buffer_next_ = 24 /\ h2.impl_.buffer_next_ = 24

\* C10: hash_value of a vector, a string, a std::array or a forward_list mixes every
\* element in iteration order and the element count, as a size_t, last: the recorder
\* holds the bytes of the elements followed by the bytes of the count (0x61, 0x62,
\* 0x63 and the encoding of 3 for "abc"), and sequences of different kinds holding
\* equal elements record identical bytes.
C10_Sequences ==
  LET sequence(x) ==
        /\ x.T.k \in {"vector", "string", "array", "forward_list"}
        /\ is_integral(x.T.of[1]) /\ x.T.of[1].k # "bool"
      recorded(x) == Memory(x.elems) \o ToBytes(Len(x.elems), SizeOf(size_t))
  IN  ( /\ pc = "second" /\ alg = "identity" /\ args.op = "hash_value"
        /\ sequence(args.x) /\ sequence(args.y) ) =>
        /\ h1.hash_input_ = recorded(args.x)
        /\ h2.hash_input_ = recorded(args.y)
        /\ args.x.elems = args.y.elems => h1.hash_input_ = h2.hash_input_
        /\ Memory(args.x.elems) = <<97, 98, 99>> =>
             h1.hash_input_ = <<97, 98, 99, 3, 0, 0, 0, 0, 0, 0, 0>>

\* the recorder took the string "abc" and the forward_list of the same characters
C10_Witness ==
  /\ alg = "identity" /\ pc = "second" /\ args.op = "hash_value"
  /\ args.x.T.k = "string" /\ args.y.T.k = "forward_list"
  /\ h1.hash_input_ = <<97, 98, 99, 3, 0, 0, 0, 0, 0, 0, 0>>
  /\ h2.hash_input_ = h1.hash_input_

\* C11: hash_value of an empty vector, string or forward_list mixes no element and then
\* the count zero, sizeof(size_t) zero bytes: the handle has consumed input and is not
\* the fresh handle, and hash_sized_container and the forward_list loop feed the same
\* bytes.
C11_EmptySequenceCounts ==
  LET empty(x) == x.T.k \in {"vector", "string", "forward_list"} /\ x.elems = <<>>
      zero == [i \in 1..SizeOf(size_t) |-> 0]
      consumed(h) ==
        /\ \A g \in Garbage : h # StateAnd(alg, g) /\ ~Equivalent(h, StateAnd(alg, g))
        /\ Equivalent(h, Run(StateAnd(alg, 0), <<[op |-> "hash_combine_range", bytes |-> zero]>>))
        /\ alg = "identity" => h.hash_input_ = zero
        /\ alg = "farmhash" => h.buffer_next_ = SizeOf(size_t)
  IN  (args.op = "hash_value" /\ pc # "fresh" /\ empty(args.x)) =>
        /\ consumed(h1)
        /\ (pc = "second" /\ empty(args.y)) => consumed(h2) /\ Equivalent(h1, h2)

\* FarmHash hashed an empty vector and an empty forward_list
C11_Witness ==
  /\ alg = "farmhash" /\ pc = "second" /\ args.op = "hash_value"
  /\ args.x.T.k = "vector" /\ args.y.T.k = "forward_list"
  /\ args.x.elems = <<>> /\ args.y.elems = <<>>
  /\ h1.buffer_next_ = 8 /\ h2.buffer_next_ = 8

-----------------------------------------------------------------------------
(* Bytes: the bytes of input reach a handle of every algorithm as unsigned *)
(* char ranges and as single unsigned char values; h2 is a handle of the   *)
(* algorithm the type-invariant variant is derived from, fed the same      *)
(* bytes as ranges.  k counts the single values, capped at MaxSingle.      *)

MaxBytes == 131

ByteChunks == {0, 16, 33, 64, 65}

MaxSingle == 2

\* the algorithm a type-invariant variant wraps or copies
Base(a) ==
  CASE a = "type_invariant_hash<farmhash>" -> "farmhash"
    [] a \in {"type_invariant_hash<fnv1a>", "type_invariant_fnv1a"} -> "fnv1a"
    [] OTHER -> a

\* const unsigned char* begin, end over the bytes
ByteRange(bytes) ==
  Range("pointer", Ty("unsigned char"),
        [i \in 1..Len(bytes) |-> Scalar("unsigned char", <<bytes[i]>>)])

BytesInit ==
  /\ alg \in Algorithms
  /\ input \in {s \in StreamInputs : s[1] = 3}
  /\ posA = 0 /\ posB = 0 /\ hA = <<>> /\ hB = <<>>
  /\ args = <<>> /\ k = 0
  /\ \E g \in Garbage : h1 = StateAnd(alg, g)
  /\ \E g \in Garbage : h2 = StateAnd(Base(alg), g)
  /\ h3 = <<>>
  /\ pc = "fresh"

\* hash_combine_range(std::move(h), begin, end)
MixRange ==
  \E n \in ByteChunks :
    /\ posA + n <= MaxBytes
    /\ LET range == ByteRange(SubSeq(input, posA + 1, posA + n))
       IN  /\ h1' = Run(h1, hash_combine_range(InFlight(h1), range).calls)
           /\ h2' = Run(h2, hash_combine_range(InFlight(h2), range).calls)
    /\ posA' = posA + n
    /\ pc' = "range"
    /\ UNCHANGED <<alg, input, posB, hA, hB, args, k, h3>>

\* hash_combine(std::move(h), c) for one unsigned char c
MixByte ==
  /\ posA + 1 <= MaxBytes /\ k < MaxSingle
  /\ LET c == ByteRange(<<input[posA + 1]>>)
     IN  /\ h1' = Run(h1, hash_combine(InFlight(h1), c.elems).calls)
         /\ h2' = Run(h2, hash_combine_range(InFlight(h2), c).calls)
  /\ posA' = posA + 1
  /\ k' = k + 1
  /\ pc' = "byte"
  /\ UNCHANGED <<alg, input, posB, hA, hB, args, h3>>

BytesNext == MixRange \/ MixByte

SpecBytes == BytesInit /\ [][BytesNext]_vars

\* the FarmHash handle of the computation, if the algorithm is or wraps FarmHash
Farm == IF alg = "farmhash" THEN h1 ELSE h2

\* C12: the finalization of FarmHash is selected by the number L of bytes mixed so far,
\* however they were chunked: HashLen0to16 for L <= 16, HashLen17to32 for 17..32,
\* HashLen33to64 for 33..64, each on exactly the L input bytes, which the buffer holds
\* at [0, L); final_mix on the registers and the buffer for L >= 65.
C12_FinalizationByLength ==
  LET L == posA
      s == SubSeq(input, 1, L)
  IN  Base(alg) = "farmhash" =>
        /\ Farm.mixed_ <=> L >= 65
        /\ L <= 64 => Farm.buffer_next_ = L /\ Buffered(Farm) = s
        /\ farmhash_result(Farm) =
             CASE L <= 16 -> HashLen0to16(s, L)
               [] L >= 17 /\ L <= 32 -> HashLen17to32(s, L)
               [] L >= 33 /\ L <= 64 -> HashLen33to64(s, L)
               [] OTHER -> final_mix(Farm.state_, Farm.buffer_next_)
        /\ farmhash_result(Farm) = farmhash_result(farmhash_bytes(proxy(state(0)), s))

\* FarmHash holds 16 bytes, the last length of the first bucket, after one range
C12_Witness ==
  /\ alg = "farmhash" /\ pc = "range" /\ posA = 16 /\ k = 0
  /\ ~h1.mixed_ /\ h1.buffer_next_ = 16

\* C13 as stated: after L input bytes mix() has run once per complete 64-byte block of
\* the input, floor(L / 64) times, with initialize() on the first fill only.
C13_MixPerFullBlock ==
  Base(alg) = "farmhash" =>
    /\ Len(Farm.state_.mixlog) = posA \div 64
    /\ Farm.state_.inits = IF posA >= 64 THEN 1 ELSE 0

\* C13, amended: a full window is mixed only when a further byte arrives: after L >= 1
\* input bytes mix() has run floor((L - 1) / 64) times, on the successive 64-byte
\* blocks of the input, and the last 1..64 bytes wait in the buffer; initialize() has
\* run exactly once if L >= 65 and not at all before.
C13_MixWhenWindowOverflows ==
  LET L == posA
      n == IF L = 0 THEN 0 ELSE (L - 1) \div 64
  IN  Base(alg) = "farmhash" =>
        /\ Len(Farm.state_.mixlog) = n
        /\ \A i \in 1..n : Farm.state_.mixlog[i] = SubSeq(input, 64 * (i - 1) + 1, 64 * i)
        /\ Farm.buffer_next_ = L - 64 * n
        /\ Buffered(Farm) = SubSeq(input, 64 * n + 1, L)
        /\ Farm.state_.inits = IF L >= 65 THEN 1 ELSE 0

\* FarmHash holds 128 bytes: the first block is mixed, the second fills the window and
\* is not mixed yet
C13_Witness ==
  /\ alg = "farmhash" /\ posA = 128
  /\ h1.buffer_next_ = 64 /\ Len(h1.state_.mixlog) = 1 /\ h1.state_.inits = 1

\* C14: the register of a fresh fnv1a handle is 14695981039346656037
\* (0xcbf29ce484222325); after the bytes b1..bn, over any number of byte-range calls,
\* it is the left fold r := ((r XOR b) * 1099511628211) mod 2^64 over b1..bn in order,
\* computed here with 1099511628211 = 2^40 + 2^8 + 179; extraction returns the register.
C14_Fnv1aFold ==
  LET RECURSIVE Fold(_, _)
      Fold(r, i) ==
        IF i > posA \/ Len(r) # 8 THEN r
        ELSE LET x == Xor64(r, U64(input[i]))
             IN  Fold(Add64(Add64(Shl64(x, 40), Shl64(x, 8)), Mul64(x, U64(179))), i + 1)
      fresh == <<37, 35, 34, 132, 228, 156, 242, 203>>
  IN  Base(alg) = "fnv1a" =>
        /\ pc = "fresh" => h2.state_ = fresh
        /\ h2.state_ = Fold(fresh, 1)
        /\ result_type(h2) = h2.state_

\* fnv1a has taken 81 bytes in several ranges
C14_Witness ==
  /\ alg = "fnv1a" /\ pc = "range" /\ posA = 81 /\ k = 0
  /\ h2.state_ # fnv1a_basis

\* C15: after any sequence of single-byte mixes and byte-range mixes on an identity
\* handle, extraction returns the concatenation of all mixed bytes in the order they
\* were mixed, nothing added, dropped or reordered; a byte mixed by hash_combine and
\* the same byte mixed as a one-element range record the same thing.
C15_RecorderConcatenates ==
  alg = "identity" =>
    /\ result_type(h1) = SubSeq(input, 1, posA)
    /\ result_type(h2) = SubSeq(input, 1, posA)
    /\ h1 = h2

\* the recorder took ranges and MaxSingle single bytes, the last by hash_combine
C15_Witness ==
  /\ alg = "identity" /\ pc = "byte" /\ k = MaxSingle /\ posA > 64
  /\ Len(h1.hash_input_) = posA

\* C16: every byte range mixed into a type_erased_hash_code reaches the wrapped
\* algorithm's own hash_combine_range unchanged and in order, and other arguments go
\* through hash_value: the handle hash_value(h, pimpl) returns is equivalent to
\* hash_combine(h, impl.v_, impl.s_) on h itself, and no byte is lost with the adapter
\* (the recorder holds 1, 2, 3 as int, the count 3, 'a', 'b', 'c', the count 3).
C16_TypeErasedForwards ==
  (pc # "fresh" /\ args.op = "hash_value" /\ args.x.T.k = "Pimpl") =>
    LET impl == args.x.elems[1]
    IN  /\ \A g \in Garbage :
             Equivalent(h1, Apply(StateAnd(alg, g), "hash_combine", [values |-> impl.elems]))
        /\ alg = "identity" =>
             h1.hash_input_ =
               <<1, 0, 0, 0, 2, 0, 0, 0, 3, 0, 0, 0, 3, 0, 0, 0, 0, 0, 0, 0,
                 97, 98, 99, 3, 0, 0, 0, 0, 0, 0, 0>>

\* FarmHash hashed a Pimpl: the 31 bytes the adapter forwarded are in its buffer
C16_Witness ==
  /\ alg = "farmhash" /\ pc = "second" /\ args.op = "hash_value"
  /\ args.x.T.k = "Pimpl" /\ h1.buffer_next_ = 31

\* C17: at the byte level a type-invariant variant behaves as the algorithm it is
\* derived from: fed the same unsigned char ranges, type_invariant_hash<H> yields the
\* digest of H and type_invariant_fnv1a the digest of fnv1a.
C17_TypeInvariantSameBytes ==
  (alg # Base(alg) /\ k = 0) =>
    /\ result_type(h1) = result_type(h2)
    /\ alg # "type_invariant_fnv1a" => h1.impl_.alg = h2.alg
    /\ alg = "type_invariant_fnv1a" => h1.state_ = h2.state_

\* type_invariant_hash<farmhash> and farmhash took the same 130 bytes as ranges
C17_Witness ==
  /\ alg = "type_invariant_hash<farmhash>" /\ k = 0 /\ posA = 130 /\ pc = "range"
  /\ h1.impl_.mixed_ /\ h2.mixed_

-----------------------------------------------------------------------------
(* std_::hash<T>::operator(): one hash computation, from the declaration of the
   state to the returned digest.  h2 holds the primitive calls the decomposition
   of the operand makes, k how many of them the handle has received, h3 the
   digest, posA the number of conversions to result_type. *)

\* the argument of the conversion is evaluated in full before the conversion runs,
\* except that the conversion is allowed to run at any point of the evaluation
Evaluated_early(calls, n) == n <= Len(calls)

\* result_type(hash_value(farmhash{&state}, u)): the call is the argument of the conversion
Evaluated(calls, n) == n = Len(calls)

HashInit ==
  /\ alg = "farmhash"
  /\ args \in CombineArgs \cup { Iota(kind, 2 * MaxArgs) : kind \in {"int", "long"} }
  /\ k = 0
  /\ h1 = <<>> /\ h2 = <<>> /\ h3 = <<>>
  /\ pc = "call"
  /\ StreamIdle

\* hashing::farmhash::state_type state;  hashing::farmhash{&state}
Construct ==
  /\ pc = "call"
  /\ \E g \in Garbage : h1' = StateAnd(alg, g)
  /\ h2' = hash_value(InFlight(h1'), args).calls
  /\ pc' = "mixing"
  /\ UNCHANGED <<alg, args, k, h3>>
  /\ UNCHANGED streamVars

\* the next primitive call of hash_value(farmhash{&state}, u)
Mix ==
  /\ pc = "mixing" /\ k < Len(h2)
  /\ h1' = Step(h1, h2[k + 1])
  /\ k' = k + 1
  /\ UNCHANGED <<alg, args, h2, h3, pc>>
  /\ UNCHANGED streamVars

\* hashing::farmhash::result_type(...): final_mix works in place on the state
Extract ==
  /\ pc = "mixing" /\ Evaluated(h2, k)
  /\ h3' = result_type(h1)
  /\ h1' = IF h1.mixed_
           THEN [h1 EXCEPT !.state_ = final_mixed(@, h1.buffer_next_)]
           ELSE h1
  /\ posA' = posA + 1
  /\ pc' = "extracted"
  /\ UNCHANGED <<alg, args, k, h2>>
  /\ UNCHANGED <<input, posB, hA, hB>>

\* return: the handle and the state go out of scope
Return ==
  /\ pc = "extracted"
  /\ pc' = "returned"
  /\ UNCHANGED <<alg, args, k, h1, h2, h3>>
  /\ UNCHANGED streamVars

HashNext == Construct \/ Mix \/ Extract \/ Return

SpecHash == HashInit /\ [][HashNext]_vars

C25_FinalMixSeesLast64 ==
  LET RECURSIVE Fed(_)
      Fed(i) == IF i = 0 THEN <<>> ELSE Fed(i - 1) \o h2[i].bytes
      whole == Fed(Len(h2))
  IN  pc \in {"extracted", "returned"} /\ h1.mixed_ =>
        /\ h1.state_.inits = 1
        /\ h1.buffer_next_ \in 1..64
        /\ Len(whole) >= 65
        /\ h1.state_.buffer_ = SubSeq(whole, Len(whole) - 63, Len(whole))

\* a vector of longs of 160 bytes and its count: two blocks mixed, 40 bytes buffered
C25_Witness ==
  /\ pc = "extracted" /\ h1.mixed_
  /\ Len(h1.state_.mixlog) = 2 /\ h1.buffer_next_ = 16 * MaxArgs + 8 - 128
  /\ h1.state_.buffer_[57] = 2 * MaxArgs

-----------------------------------------------------------------------------
(* Ownership: the byte-range step of an algorithm, one byte at a time, with the
   handle objects it brings to life.  hA is the stack of handle objects, the
   caller's first; moved marks an object that has been moved from. *)

\* how the byte loop of algorithm a hands its handle to the step it calls:
\* fnv1a::mix(fnv1a hash_code, c) is called with the lvalue hash_code (fnv1a has no
\* deleted copy constructor), type_invariant_fnv1a::mix and the inner
\* hash_combine_range of type_invariant_hash with std::move, the others work in place
Passing(a) ==
  CASE a = "fnv1a" -> "copy"
    [] a \in {"type_invariant_fnv1a", "type_invariant_hash<farmhash>",
              "type_invariant_hash<fnv1a>"} -> "move"
    [] OTHER -> "none"

Live(handles) == {i \in 1..Len(handles) : ~handles[i].moved}

OwnInit ==
  /\ alg \in Algorithms
  /\ input \in StreamInputs
  /\ posA = 0 /\ posB = 0 /\ hB = <<>>
  /\ \E g \in Garbage : hA = <<[h |-> StateAnd(alg, g), moved |-> FALSE]>>
  /\ args = <<>> /\ k = 0 /\ h1 = <<>> /\ h2 = <<>> /\ h3 = <<>>
  /\ pc = "loop"

\* the loop calls the step on the next byte: the parameter of the step comes to life
EnterStep ==
  /\ pc = "loop" /\ posA < Len(input)
  /\ hA' = CASE Passing(alg) = "copy" ->
                  Append(hA, [h |-> hA[1].h, moved |-> FALSE])
             [] Passing(alg) = "move" ->
                  <<[hA[1] EXCEPT !.moved = TRUE], [h |-> hA[1].h, moved |-> FALSE]>>
             [] Passing(alg) = "none" -> hA
  /\ pc' = "step"
  /\ UNCHANGED <<input, posA, posB, hB>>
  /\ UNCHANGED <<alg, args, k, h1, h2, h3>>

\* the step returns: its parameter dies, the handle of the loop holds the new state
LeaveStep ==
  /\ pc = "step"
  /\ LET c == <<input[posA + 1]>>
         op == IF alg \in {"fnv1a", "type_invariant_fnv1a"} THEN "mix"
               ELSE "hash_combine_range"
     IN  hA' = <<[h |-> Step(hA[Len(hA)].h, [op |-> op, bytes |-> c]), moved |-> FALSE]>>
  /\ posA' = posA + 1
  /\ pc' = "loop"
  /\ UNCHANGED <<input, posB, hB>>
  /\ UNCHANGED <<alg, args, k, h1, h2, h3>>

OwnNext == EnterStep \/ LeaveStep

SpecOwn == OwnInit /\ [][OwnNext]_vars

\* C19: no step duplicates a handle: at every point of a computation at most one live
\* handle holds the state of the algorithm, for every algorithm, fnv1a included
C19_SingleOwner == Cardinality(Live(hA)) <= 1

\* the same for the algorithms whose handle has a deleted copy constructor
C19_SingleOwnerMoveOnly == alg # "fnv1a" => Cardinality(Live(hA)) <= 1

\* fnv1a inside mix(): the parameter is a second live handle, a copy of the first
C19_Witness ==
  /\ alg = "fnv1a" /\ pc = "step" /\ posA > 0
  /\ Live(hA) = {1, 2} /\ hA[1].h = hA[2].h

-----------------------------------------------------------------------------
(* Integral limits: hash_combine(StateAnd<HashCode>().hash_code, v) for v one of
   Int(0), limits::max() and limits::min(), against a second fresh handle h3. *)

IntegralInit ==
  /\ alg \in Algorithms
  /\ args \in { Limits(kind) : kind \in IntegralTypes }
  /\ k = 0
  /\ \E g \in Garbage : h1 = StateAnd(alg, g)
  /\ h2 = <<>>
  /\ \E g \in Garbage : h3 = StateAnd(alg, g)
  /\ pc = "fresh"
  /\ StreamIdle

\* hash_combine(StateAnd<HashCode>().hash_code, v)
CombineLimit ==
  /\ pc = "fresh"
  /\ \E i \in 1..Len(args.elems) :
       /\ h1' = Run(h1, hash_combine(InFlight(h1), <<args.elems[i]>>).calls)
       /\ k' = i
  /\ pc' = "combined"
  /\ UNCHANGED <<alg, args, h2, h3>>
  /\ UNCHANGED streamVars

SpecIntegral == IntegralInit /\ [][CombineLimit]_vars

\* C20: for every algorithm and every integral type, hash_combine of a fresh handle
\* with one of 0, max and min is not equivalent to a fresh handle
C20_MixingChangesHandle ==
  pc = "combined" =>
    /\ ~Equivalent(h1, h3)
    /\ \A g \in Garbage : ~Equivalent(h1, StateAnd(alg, g))

\* FarmHash took the one byte of char's minimum, 0x80
C20_Witness ==
  /\ pc = "combined" /\ alg = "farmhash" /\ k = 3
  /\ args.T.of[1].k = "char"
  /\ h1.buffer_next_ = 1 /\ h1.state_.buffer_[1] = 128
  /\ h3.buffer_next_ = 0

-----------------------------------------------------------------------------
(* The class hashing::farmhash of farmhash.h: a handle that holds a digest, with
   its own hash_combine and hash_combine_range.  args.values is split at k into
   us and vs; h1 takes us and then vs, h2 takes both in one call. *)

\* farmhash hash_combine(farmhash hash_code, Ts... values): a local state s, left
\* uninitialized (g), a proxy over it, the digest of the values alone
farmhash_hash_combine(hash_code, values, g) ==
  [alg |-> "hashing::farmhash",
   result_ |-> result_type(Run(proxy(state(g)),
                               hash_combine(InFlight(proxy(state(g))), values).calls))]

\* farmhash hash_combine_range(farmhash hash_code, InputIterator begin, InputIterator end)
farmhash_hash_combine_range(hash_code, range, g) ==
  [alg |-> "hashing::farmhash",
   result_ |-> result_type(Run(proxy(state(g)),
                               hash_combine_range(InFlight(proxy(state(g))), range).calls))]

\* the call of the wrapper on the elements a..b of args.values, in the form args.form
WrapperCall(hash_code, a, b, g) ==
  LET elems == SubSeq(args.values.elems, a, b)
  IN  IF args.form = "hash_combine_range"
      THEN farmhash_hash_combine_range(
             hash_code, Range("vector::iterator", args.values.T.of[1], elems), g)
      ELSE farmhash_hash_combine(hash_code, elems, g)

\* farmhash() = default leaves result_ uninitialized
WrapperInit ==
  /\ alg = "hashing::farmhash"
  /\ args \in [values : CombineArgs, form : {"hash_combine", "hash_combine_range"}]
  /\ k \in 0..MaxArgs /\ k <= Len(args.values.elems)
  /\ \E g \in Garbage : h1 = [alg |-> "hashing::farmhash", result_ |-> U64(g)]
  /\ h2 = h1
  /\ h3 = <<>>
  /\ pc = "fresh"
  /\ StreamIdle

\* h1 = hash_combine(std::move(h1), us...)
CombineFirst ==
  /\ pc = "fresh"
  /\ \E g \in Garbage : h1' = WrapperCall(h1, 1, k, g)
  /\ pc' = "first"
  /\ UNCHANGED <<alg, args, k, h2, h3>>
  /\ UNCHANGED streamVars

\* h1 = hash_combine(std::move(h1), vs...)
CombineSecond ==
  /\ pc = "first"
  /\ \E g \in Garbage : h1' = WrapperCall(h1, k + 1, Len(args.values.elems), g)
  /\ pc' = "second"
  /\ UNCHANGED <<alg, args, k, h2, h3>>
  /\ UNCHANGED streamVars

\* h2 = hash_combine(std::move(h2), us..., vs...)
CombineAll ==
  /\ pc = "second"
  /\ \E g \in Garbage : h2' = WrapperCall(h2, 1, Len(args.values.elems), g)
  /\ pc' = "all"
  /\ UNCHANGED <<alg, args, k, h1, h3>>
  /\ UNCHANGED streamVars

SpecWrapper == WrapperInit /\ [][CombineFirst \/ CombineSecond \/ CombineAll]_vars

\* C21: hash_combine and hash_combine_range of hashing::farmhash continue the
\* computation of the handle they are given: us and then vs give the digest of us, vs
C21_WrapperContinues == pc = "all" => h1.result_ = h2.result_

\* what the wrapper does compute: the digest of the values of the last call alone
C21_WrapperRestarts ==
  pc \in {"second", "all"} =>
    \A g \in Garbage :
      h1.result_ = WrapperCall(h1, k + 1, Len(args.values.elems), g).result_

\* three values went in as one and then two, and as three at once
C21_Witness ==
  /\ pc = "all" /\ k = 1 /\ Len(args.values.elems) = 3
  /\ args.form = "hash_combine"
  /\ h1.result_ # h2.result_

\* C30: FarmHash never reads state it has not written.  Until the first mix() only
\* the buffer bytes [0, len) are written, and the digest is the same whatever the rest
\* of the buffer and the registers hold; from the first mix() on, initialize() has
\* written the registers and all 64 buffer bytes are input bytes
C30_ReadsOnlyWritten ==
  LET Unwritten(h, g) ==
        [h EXCEPT !.state_ =
           [state(g) EXCEPT
              !.buffer_ = [i \in 1..64 |->
                             IF i <= h.buffer_next_ THEN h.state_.buffer_[i] ELSE g]]]
  IN  Base(alg) = "farmhash" =>
        /\ ~Farm.mixed_ =>
             /\ Farm.state_.inits = 0
             /\ Farm.buffer_next_ = posA
             /\ Buffered(Farm) = SubSeq(input, 1, posA)
             /\ \A g \in {85, 255} :
                  farmhash_result(Farm) = farmhash_result(Unwritten(Farm, g))
        /\ Farm.mixed_ =>
             /\ Farm.state_.inits = 1
             /\ Farm.state_.mixlog # <<>>
             /\ RotateBuffer(Farm.state_.buffer_, Farm.buffer_next_) =
                  SubSeq(input, posA - 63, posA)

\* FarmHash holds two bytes, fed one at a time, in a buffer that was never filled
C30_Witness ==
  /\ alg = "farmhash" /\ posA = 2 /\ k = 2
  /\ ~h1.mixed_ /\ h1.buffer_next_ = 2
  /\ h1.state_.buffer_[3] = 170 /\ h1.state_.x_[1] = 170

-----------------------------------------------------------------------------
(* simple_hash_combine and simple_hash_combine_range on values of the built-in
   hashable types.  h1 takes the value through simple_hash_combine (or a region
   of two copies of it through simple_hash_combine_range), h2 through
   hash_value; k tells the two apart afterwards. *)

BuiltInValues ==
  LET PtrTo(T) == [k |-> "pointer", of |-> <<T>>, n |-> 0]
      Tuple(members, rep) ==
        [T |-> [k |-> "tuple", of |-> [i \in 1..Len(members) |-> members[i].T], n |-> 0],
         rep |-> rep, elems |-> members]
      char == Integral("char", 5)
      int == Integral("int", 9)
      long == Integral("long", -2)
      true == Scalar("bool", <<1>>)
      ab == Container("string", Ty("char"), <<Integral("char", 97), Integral("char", 98)>>)
  IN  { true, Scalar("bool", <<0>>),
        Scalar("float", <<0, 0, 128, 63>>), Scalar("float", <<0, 0, 0, 128>>),
        Scalar("float", <<0, 0, 0, 0>>),
        char, int, long, Integral("unsigned char", 200), Integral("unsigned int", 7),
        Scalar("pointer", <<16, 32, 64, 0, 0, 127, 0, 0>>),
        [T |-> PtrTo(Ty("unsigned char")), rep |-> <<24, 32, 64, 0, 0, 127, 0, 0>>,
         elems |-> <<>>],
        Pair(int, <<>>, int), Pair(true, <<>>, char),
        Array(Ty("int"), <<int, int>>), Array(Ty("bool"), <<true, true>>),
        ab, Container("vector", Ty("int"), <<int, int, int>>),
        Container("vector", ab.T, <<ab, ab>>),
        Container("forward_list", Ty("long"), <<long>>),
        Tuple(<<int, int>>, int.rep \o int.rep) }
      \cup { Pair(char, <<g, g, g>>, int) : g \in Garbage }
      \cup { [Pair(long, <<>>, char) EXCEPT !.rep = @ \o <<g, g, g, g, g, g, g>>] :
               g \in Garbage }
      \cup { Tuple(<<char, int>>, int.rep \o char.rep \o <<g, g, g>>) : g \in Garbage }
      \cup { Tuple(<<char, long, char>>,
                   char.rep \o <<g, g, g, g, g, g, g>> \o long.rep
                     \o char.rep \o <<g, g, g, g, g, g, g>>) : g \in Garbage }

SimpleInit ==
  /\ alg \in Algorithms
  /\ args \in BuiltInValues
  /\ k = 0
  /\ \E g \in Garbage : h1 = StateAnd(alg, g)
  /\ h2 = h1
  /\ h3 = h1
  /\ pc = "fresh"
  /\ StreamIdle

\* simple_hash_combine(std::move(hash_code), value)
SimpleCombine ==
  /\ pc = "fresh"
  /\ h1' = Run(h1, simple_hash_combine(InFlight(h1), <<args>>).calls)
  /\ h2' = Run(h2, hash_value(InFlight(h2), args).calls)
  /\ k' = 1
  /\ pc' = "combined"
  /\ UNCHANGED <<alg, args, h3>>
  /\ UNCHANGED streamVars

\* the static_assert of simple_hash_combine_range on InputIterator = range.it over
\* range.T: !(is_pointer<InputIterator> && is_same<remove_const_t<remove_pointer_t<
\* InputIterator>>, unsigned char*>)
simple_hash_combine_range_static_assert(range) ==
  LET is_pointer == range.it = "pointer"
      remove_pointer_t == range.T
  IN  ~(is_pointer /\ remove_pointer_t.k = "pointer"
                   /\ remove_pointer_t.of = <<Ty("unsigned char")>>)

\* simple_hash_combine_range(std::move(hash_code), begin, end) over T[2] or vector<T>;
\* the call compiles only if the static_assert holds
SimpleRange ==
  /\ pc = "fresh"
  /\ \E it \in {"pointer", "vector::iterator"} :
       LET range == Range(it, args.T, <<args, args>>)
       IN  /\ simple_hash_combine_range_static_assert(range)
           /\ h1' = Run(h1, simple_hash_combine_range(InFlight(h1), range).calls)
           /\ k' = IF it = "pointer" THEN 2 ELSE 3
  /\ h2' = Run(h2, hash_value(InFlight(Run(h2, hash_value(InFlight(h2), args).calls)),
                              args).calls)
  /\ pc' = "range"
  /\ UNCHANGED <<alg, args, h3>>
  /\ UNCHANGED streamVars

RECURSIVE hash_append(_, _)
RECURSIVE hash_append_each(_, _)

\* N3980: detail::hash_append_container; directly is the tag hash_bytes_directly_tag,
\* selected for vector<T> with T uniquely represented, else hash_by_iterating_tag
hash_append_container(h, c, directly) ==
  IF directly
  THEN hash_append(IF c.elems # <<>> THEN hash_combine_range_bytes(h, Memory(c.elems))
                   ELSE h,
                   Integral(size_t.k, Len(c.elems)))
  ELSE hash_append_each(h, c.elems)

\* N3980: hash_append(h, value, values...), and for (const auto& v : c) hash_append(h, v)
hash_append_each(h, values) ==
  IF values = <<>> THEN h
  ELSE hash_append_each(hash_append(h, Head(values)), Tail(values))

\* N3980: hash_append(HashAlgorithm& h, const T&); h(p, n) is the byte-range call
hash_append(h, value) ==
  CASE is_integral(value.T) -> hash_combine_range_bytes(h, value.rep)
    [] value.T.k = "string" ->
         hash_append(hash_combine_range_bytes(h, Memory(value.elems)),
                     Integral(size_t.k, Len(value.elems)))
    [] value.T.k \in {"pair", "tuple"} -> hash_append_each(h, value.elems)
    [] value.T.k = "vector" ->
         hash_append_container(h, value, is_uniquely_represented(value.T.of[1]))

\* uhash<H>::operator()(t): H h; hash_append(h, t); for the types n3980.h overloads
\* hash_append for
HashAppend ==
  /\ pc = "fresh"
  /\ LET RECURSIVE Overloaded(_)
         Overloaded(T) ==
           \/ is_integral(T)
           \/ T.k = "string"
           \/ /\ T.k \in {"pair", "tuple", "vector"}
              /\ \A i \in 1..Len(T.of) : Overloaded(T.of[i])
     IN  Overloaded(args.T)
  /\ h3' = Run(h3, hash_append(InFlight(h3), args).calls)
  /\ k' = 4
  /\ pc' = "appended"
  /\ UNCHANGED <<alg, args, h1, h2>>
  /\ UNCHANGED streamVars

\* the values hash_value(code, value) hands on to hash_combine and hash_combine_range;
\* none where it calls detail::hash_bytes
Operands(value) ==
  LET kind == value.T.k
      size == Integral(size_t.k, Len(value.elems))
  IN  CASE kind = "bool" ->
             <<Integral("unsigned char", IF value.rep # <<0>> THEN 1 ELSE 0)>>
        [] kind \in {"vector", "string", "array", "forward_list"} ->
             Append(value.elems, size)
        [] kind \in {"pair", "tuple"} -> value.elems
        [] OTHER -> <<>>

\* one call further into the recursion: input is the stack of the values hash_value is
\* running on, the innermost first.  simple_hash_combine takes the next value, args at
\* first and then any operand of the innermost hash_value, to the byte-range primitive
\* if its type is uniquely represented and to hash_value if not
Descend ==
  /\ pc \in {"fresh", "hash_value"}
  /\ \/ /\ pc = "hash_value" /\ Operands(Head(input)) = <<>>
        /\ input' = input
        /\ pc' = "bytes"
     \/ \E v \in IF pc = "fresh" THEN {args}
                 ELSE {Operands(Head(input))[i] : i \in 1..Len(Operands(Head(input)))} :
          IF is_uniquely_represented(v.T)
          THEN input' = input /\ pc' = "bytes"
          ELSE input' = <<v>> \o input /\ pc' = "hash_value"
  /\ UNCHANGED <<posA, posB, hA, hB>>
  /\ UNCHANGED <<alg, args, k, h1, h2, h3>>

SpecSimple ==
  SimpleInit /\ [][SimpleCombine \/ SimpleRange \/ HashAppend \/ Descend]_vars

\* every call that has been entered returns or goes on
SpecSimpleLive == SpecSimple /\ WF_vars(Descend)

\* C26: is_uniquely_represented is false for bool, for floating point, for a pair or
\* tuple whose size is not the sum of its members' sizes, and for every type without
\* a specialization; simple_hash_combine takes such a value through hash_value, and a
\* bool is mixed as one byte that is 0 or 1
C26_ShortcutGated ==
  LET T == args.T
      RECURSIVE Sum(_)
      Sum(i) == IF i > Len(T.of) THEN 0 ELSE SizeOf(T.of[i]) + Sum(i + 1)
      gated == \/ T.k \in {"bool", "float", "string", "vector", "forward_list"}
               \/ T.k \in {"pair", "tuple"} /\ Len(args.rep) # Sum(1)
  IN  pc = "combined" /\ gated =>
        /\ ~is_uniquely_represented(T)
        /\ h1 = h2
        /\ T.k = "bool" =>
             \E b \in {0, 1} :
               /\ b = args.rep[1]
               /\ h1 = Step(h3, [op |-> "hash_combine_range", bytes |-> <<b>>])

\* the recorder took pair<char, int> member by member: 5 bytes, none of the padding
C26_Witness ==
  /\ pc = "combined" /\ alg = "identity"
  /\ args.T.k = "pair" /\ Len(args.rep) = 8 /\ args.rep[2] = 170
  /\ h1.hash_input_ = <<5, 9, 0, 0, 0>>

\* C28: simple_hash_combine_range does not accept unsigned char*: no call of it with
\* InputIterator = unsigned char* gets past its static_assert
C28_RejectsBytePointer ==
  pc = "range" /\ k = 2 => args.T # Ty("unsigned char")

\* what the static_assert does reject: a pointer to unsigned char* elements
C28_RejectsPointerToBytePointer ==
  pc = "range" /\ k = 2 =>
    ~(args.T.k = "pointer" /\ args.T.of = <<Ty("unsigned char")>>)

\* the recorder took two unsigned chars through simple_hash_combine_range(p, p + 2)
C28_Witness ==
  /\ pc = "range" /\ k = 2 /\ alg = "identity"
  /\ args.T = Ty("unsigned char")
  /\ h1.hash_input_ = <<200, 200>>

\* C27: N3980's hash_append of a vector<T> feeds the elements and then the element
\* count as size_t, whichever iteration strategy is selected for T
C27_VectorAppendsCount ==
  pc = "appended" /\ args.T.k = "vector" =>
    h3 = Run(h1, hash_append(hash_append_each(InFlight(h1), args.elems),
                             Integral(size_t.k, Len(args.elems))).calls)

\* the same for the vectors of a uniquely-represented T only
C27_DirectVectorAppendsCount ==
  pc = "appended" /\ args.T.k = "vector" /\ is_uniquely_represented(args.T.of[1]) =>
    h3 = Run(h1, hash_append(hash_append_each(InFlight(h1), args.elems),
                             Integral(size_t.k, Len(args.elems))).calls)

\* the recorder took a vector of the two strings "ab": each with its length, no count
C27_Witness ==
  /\ pc = "appended" /\ alg = "identity"
  /\ args.T.k = "vector" /\ args.T.of[1].k = "string"
  /\ h3.hash_input_ = <<97, 98, 2, 0, 0, 0, 0, 0, 0, 0, 97, 98, 2, 0, 0, 0, 0, 0, 0, 0>>

====
